---- MODULE Spec2Model ----
(***************************************************************************)
(* A model of the csv-to-md conversion engine (src/converter.py) and of    *)
(* the request handler that drives it (src/app.py).                        *)
(*                                                                         *)
(* Bytes and code points are naturals; a byte buffer and a decoded text    *)
(* are sequences of them.  CSV text, cells and rendered output are         *)
(* sequences of one-character strings.  A core function is applied by an   *)
(* action that reads its arguments from `call` and leaves its outcome in   *)
(* `ret`: [kind |-> "ok", value |-> v] for a return value, and             *)
(* [kind |-> "raise", exc |-> e] for an exception that leaves the          *)
(* function.                                                               *)
(***************************************************************************)
EXTENDS Integers, Sequences, FiniteSets, TLC

VARIABLES
    call,       \* the core function being applied and its arguments
    ret,        \* its outcome, NoRet before it has run
    excel,      \* the attributes of the class csv.excel, shared by every call
    inflight    \* per request slot: the request the serving layer holds

vars == <<call, ret, excel, inflight>>

NoRet == [kind |-> "none"]
Ok(v) == [kind |-> "ok", value |-> v]
Raise(e) == [kind |-> "raise", exc |-> e]

(***************************************************************************)
(* Sequence helpers.                                                       *)
(***************************************************************************)
SeqsUpTo(S, n) == UNION {[1..k -> S] : k \in 0..n}

Min2(a, b) == IF a <= b THEN a ELSE b
Max2(a, b) == IF a >= b THEN a ELSE b

Drop(s, n) == SubSeq(s, n + 1, Len(s))
Take(s, n) == SubSeq(s, 1, Min2(n, Len(s)))

StartsWith(s, p) == Len(s) >= Len(p) /\ SubSeq(s, 1, Len(p)) = p

Contains(s, x) == \E i \in 1..Len(s) : s[i] = x

\* The element of a one-element set.  Only({e : x \in {v}}) is e with x
\* standing for the value v, computed once: the way an operator names an
\* intermediate result that it uses more than once.
Only(S) == CHOOSE v \in S : TRUE

(***************************************************************************)
(* 4.1 Decoder: the codecs.                                                *)
(*                                                                         *)
(* A codec maps a byte sequence to a sequence of code points; a position   *)
(* the codec cannot decode yields the marker Undecodable when errors are   *)
(* strict, and U+FFFD (65533) when errors="replace".                       *)
(***************************************************************************)
Undecodable == 0 - 1
ReplacementChar == 65533

\* bytes.decode(codec) with errors="strict": the text, or UnicodeDecodeError.
Strict(cps) ==
    IF Contains(cps, Undecodable) THEN Raise("UnicodeDecodeError") ELSE Ok(cps)

\* UTF-8: the length of the sequence a lead byte announces, 0 for a byte that
\* cannot start one (a continuation byte, C0, C1, F5..FF).
Utf8Need(b) ==
    IF b < 128 THEN 1
    ELSE IF b \in 194..223 THEN 2
    ELSE IF b \in 224..239 THEN 3
    ELSE IF b \in 240..244 THEN 4
    ELSE 0

Utf8Cont(b) == b \in 128..191

\* The second byte of a sequence is restricted for E0, ED, F0 and F4 (no
\* overlong forms, no surrogates, nothing above U+10FFFF).
Utf8SecondOk(b0, b1) ==
    IF b0 = 224 THEN b1 \in 160..191
    ELSE IF b0 = 237 THEN b1 \in 128..159
    ELSE IF b0 = 240 THEN b1 \in 144..191
    ELSE IF b0 = 244 THEN b1 \in 128..143
    ELSE Utf8Cont(b1)

\* How many bytes from position i on form a valid prefix of one UTF-8
\* sequence (0 when raw[i] cannot start one).
Utf8Prefix(raw, i) ==
    LET n == Utf8Need(raw[i])
        ok(k) == /\ i + k <= Len(raw)
                 /\ IF k = 1 THEN Utf8SecondOk(raw[i], raw[i + 1])
                             ELSE Utf8Cont(raw[i + k])
    IN  IF n = 0 THEN 0
        ELSE IF n = 1 \/ ~ok(1) THEN 1
        ELSE IF n = 2 \/ ~ok(2) THEN 2
        ELSE IF n = 3 \/ ~ok(3) THEN 3
        ELSE 4

Utf8CodePoint(raw, i, n) ==
    IF n = 1 THEN raw[i]
    ELSE IF n = 2 THEN (raw[i] - 192) * 64 + (raw[i + 1] - 128)
    ELSE IF n = 3 THEN (raw[i] - 224) * 4096 + (raw[i + 1] - 128) * 64
                       + (raw[i + 2] - 128)
    ELSE (raw[i] - 240) * 262144 + (raw[i + 1] - 128) * 4096
         + (raw[i + 2] - 128) * 64 + (raw[i + 3] - 128)

\* raw[i..] decoded as UTF-8.  An ill-formed sequence is one Undecodable
\* (strict) or one U+FFFD per maximal ill-formed prefix (replace).
RECURSIVE Utf8From(_, _, _)
Utf8From(raw, i, replace) ==
    IF i > Len(raw) THEN << >>
    ELSE LET n == Utf8Need(raw[i])
             p == Utf8Prefix(raw, i)
         IN  IF n > 0 /\ p = n
             THEN <<Utf8CodePoint(raw, i, n)>> \o Utf8From(raw, i + n, replace)
             ELSE IF replace
             THEN <<ReplacementChar>> \o Utf8From(raw, i + Max2(p, 1), replace)
             ELSE <<Undecodable>>

Utf8Bom == <<239, 187, 191>>

\* raw.decode("utf-8-sig"): one leading byte-order mark is skipped.
DecodeUtf8Sig(raw) ==
    Strict(Utf8From(raw, IF StartsWith(raw, Utf8Bom) THEN 4 ELSE 1, FALSE))

\* raw.decode("utf-8", errors="replace")
DecodeUtf8Replace(raw) == Ok(Utf8From(raw, 1, TRUE))

Utf16LeBom == <<255, 254>>
Utf16BeBom == <<254, 255>>

\* The 16-bit unit at bytes i, i+1 in the given byte order.
Utf16Unit(raw, i, big) ==
    IF big THEN raw[i] * 256 + raw[i + 1] ELSE raw[i + 1] * 256 + raw[i]

\* raw[i..] decoded as UTF-16: a lone trailing byte, a lone surrogate and a
\* high surrogate without its low surrogate are undecodable.
RECURSIVE Utf16From(_, _, _)
Utf16From(raw, i, big) ==
    IF i > Len(raw) THEN << >>
    ELSE IF i + 1 > Len(raw) THEN <<Undecodable>>
    ELSE LET u == Utf16Unit(raw, i, big)
         IN  IF u \notin 55296..57343
             THEN <<u>> \o Utf16From(raw, i + 2, big)
             ELSE IF u >= 56320 \/ i + 3 > Len(raw)
             THEN <<Undecodable>>
             ELSE LET v == Utf16Unit(raw, i + 2, big)
                  IN  IF v \in 56320..57343
                      THEN <<65536 + (u - 55296) * 1024 + (v - 56320)>>
                           \o Utf16From(raw, i + 4, big)
                      ELSE <<Undecodable>>

\* raw.decode("utf-16"): a byte-order mark selects the byte order and is
\* skipped; without one the order is little-endian.
DecodeUtf16(raw) ==
    IF StartsWith(raw, Utf16LeBom) THEN Strict(Utf16From(raw, 3, FALSE))
    ELSE IF StartsWith(raw, Utf16BeBom) THEN Strict(Utf16From(raw, 3, TRUE))
    ELSE Strict(Utf16From(raw, 1, FALSE))

\* The bytes cp1250 leaves undefined.
Cp1250Undefined == {129, 131, 136, 144, 152}

\* cp1250's character of a byte, for the bytes the model draws buffers from.
Cp1250Char(b) ==
    IF b < 128 THEN b
    ELSE IF b \in Cp1250Undefined THEN Undecodable
    ELSE CASE b = 153 -> 8482
           [] b = 187 -> 187
           [] b = 191 -> 380
           [] b = 197 -> 313
           [] b = 216 -> 344
           [] b = 239 -> 271
           [] b = 254 -> 355
           [] b = 255 -> 729

\* raw.decode("cp1250")
DecodeCp1250(raw) == Strict([i \in 1..Len(raw) |-> Cp1250Char(raw[i])])

\* raw.decode("latin-1", errors="replace"): every byte is its own character.
DecodeLatin1Replace(raw) == Ok(raw)

\* raw.decode("ascii", errors="replace")
DecodeAsciiReplace(raw) ==
    Ok([i \in 1..Len(raw) |-> IF raw[i] < 128 THEN raw[i] ELSE ReplacementChar])

\* The codec names the interpreter's registry resolves, among the hints the
\* model draws.
KnownCodecs == {"latin-1", "ascii"}

\* raw.decode(enc, errors="replace") for a bare codec name.  The interpreter
\* returns the empty string for an empty buffer before it looks the codec up.
DecodeReplace(raw, enc) ==
    IF Len(raw) = 0 THEN Ok(<< >>)
    ELSE IF enc = "latin-1" THEN DecodeLatin1Replace(raw)
    ELSE IF enc = "ascii" THEN DecodeAsciiReplace(raw)
    ELSE Raise("LookupError")

(***************************************************************************)
(* 4.1 Decoder: decode_csv_bytes and decode_csv_bytes_with_encoding.       *)
(***************************************************************************)
NUL == 0

\* Mutant: the cp1250 fallback tried before UTF-8.
decode_csv_bytes_cp1250_first(raw) ==
    IF StartsWith(raw, Utf16LeBom) \/ StartsWith(raw, Utf16BeBom)
    THEN DecodeUtf16(raw)
    ELSE LET cp == DecodeCp1250(raw)
             u8 == DecodeUtf8Sig(raw)
         IN  IF cp.kind = "ok" THEN cp
             ELSE IF u8.kind = "ok" THEN u8
             ELSE DecodeUtf8Replace(raw)

decode_csv_bytes(raw) ==
    IF StartsWith(raw, Utf16LeBom) \/ StartsWith(raw, Utf16BeBom)
    THEN DecodeUtf16(raw)
    ELSE LET u8 == DecodeUtf8Sig(raw)
             \* the try block of lines 18-25: a UnicodeDecodeError of either
             \* decode inside it is swallowed
             tried == IF u8.kind = "ok" /\ Contains(u8.value, NUL)
                      THEN DecodeUtf16(raw)
                      ELSE u8
             cp == DecodeCp1250(raw)
         IN  IF tried.kind = "ok" THEN tried
             ELSE IF cp.kind = "ok" THEN cp
             ELSE DecodeUtf8Replace(raw)

\* (encoding or "auto").strip().lower(), for the hints the model draws.
StripLower(encoding) ==
    CASE encoding = "" -> "auto"
      [] encoding = " UTF-8 " -> "utf-8"
      [] OTHER -> encoding

\* Mutant: every explicit hint decoded with the lossy policy.
decode_csv_bytes_with_encoding_lossy(raw, encoding) ==
    LET enc == StripLower(encoding)
    IN  IF enc = "auto" THEN decode_csv_bytes(raw)
        ELSE IF enc \in {"utf-16", "utf16"} THEN DecodeUtf16(raw)
        ELSE IF enc \in {"utf-8", "utf8"}
        THEN Ok(Utf8From(raw, IF StartsWith(raw, Utf8Bom) THEN 4 ELSE 1, TRUE))
        ELSE IF enc \in {"cp1250", "windows-1250", "win1250"}
        THEN DecodeCp1250(raw)
        ELSE DecodeReplace(raw, enc)

decode_csv_bytes_with_encoding(raw, encoding) ==
    LET enc == StripLower(encoding)
    IN  IF enc = "auto" THEN decode_csv_bytes(raw)
        ELSE IF enc \in {"utf-16", "utf16"} THEN DecodeUtf16(raw)
        ELSE IF enc \in {"utf-8", "utf8"} THEN DecodeUtf8Sig(raw)
        ELSE IF enc \in {"cp1250", "windows-1250", "win1250"}
        THEN DecodeCp1250(raw)
        ELSE DecodeReplace(raw, enc)

(***************************************************************************)
(* CSV text: characters.  A character is a one-character string; the two   *)
(* characters TLA+ strings cannot spell are named.                         *)
(***************************************************************************)
NULCHAR == "<NUL>"
BOMCHAR == "<U+FEFF>"

LF == "\n"
CR == "\r"
TAB == "\t"
QUOTE == "\""
APOS == "'"
SPACE == " "

\* The characters the regular expression class \w matches, among those the
\* model draws texts from.
WordChars ==
    {"a", "b", "c", "d", "e", "n", "x", "y", "A", "B", "C", "D", "K",
     "0", "1", "2", "3", "4", "5", "6", "7", "8", "9", "_"}

\* str.strip() strips these (the whitespace among the model's characters).
Whitespace == {SPACE, TAB, LF, CR}

\* s.count(c)
RECURSIVE Count(_, _)
Count(s, c) ==
    IF s = << >> THEN 0 ELSE (IF Head(s) = c THEN 1 ELSE 0) + Count(Tail(s), c)

\* s.split(sep) for a one-character separator: the pieces between the
\* separators, empty pieces kept.
RECURSIVE SplitOn(_, _)
SplitOn(s, sep) ==
    IF ~Contains(s, sep) THEN <<s>>
    ELSE LET i == CHOOSE k \in 1..Len(s) :
                      s[k] = sep /\ \A j \in 1..(k - 1) : s[j] # sep
         IN  <<SubSeq(s, 1, i - 1)>> \o SplitOn(Drop(s, i), sep)

\* [x for x in seq if pred(x)], for the non-empty filter the code uses.
RECURSIVE NonEmpty(_)
NonEmpty(seq) ==
    IF seq = << >> THEN << >>
    ELSE (IF Head(seq) = << >> THEN << >> ELSE <<Head(seq)>>) \o NonEmpty(Tail(seq))

(***************************************************************************)
(* 4.2 csv.Sniffer().sniff(sample, delimiters=",;\t|"), for samples of at  *)
(* most ten non-empty lines (one chunk of the frequency analysis).         *)
(***************************************************************************)
SniffDelimiters == <<",", ";", TAB, "|">>

SniffQuotes == {QUOTE, APOS}

\* The class [^\w\n"'] a delimiter next to a quoted field is matched by.
SniffDelimClass(c) == c \notin WordChars /\ c # LF /\ c \notin SniffQuotes

AtLineStart(s, p) == p = 1 \/ (p - 1 <= Len(s) /\ s[p - 1] = LF)
AtLineEnd(s, e) == e = Len(s) \/ s[e + 1] = LF

\* The least position e > q of a closing quote (the same character as the
\* opening one at q) that the rest of pattern pat accepts; 0 if none.
\* Patterns, in the order the sniffer tries them:
\*   1  delim space? quote .*? quote delim      2  ^ quote .*? quote delim space?
\*   3  delim space? quote .*? quote $          4  ^ quote .*? quote $
SniffClose(s, q, pat, lead) ==
    LET ok(e) == /\ s[e] = s[q]
                 /\ CASE pat = 1 -> e + 1 <= Len(s) /\ s[e + 1] = lead
                      [] pat = 2 -> e + 1 <= Len(s) /\ SniffDelimClass(s[e + 1])
                      [] OTHER -> AtLineEnd(s, e)
        cands == {e \in (q + 1)..Len(s) : ok(e)}
    IN  IF cands = {} THEN 0 ELSE CHOOSE e \in cands : \A f \in cands : e <= f

\* The match of pattern pat that starts at position p: [end, delim, space],
\* or [end |-> 0] if there is none.
SniffMatchAt(s, p, pat) ==
    LET none == [end |-> 0, delim |-> "", space |-> FALSE]
    IN  IF pat \in {1, 3}
        THEN IF ~SniffDelimClass(s[p]) THEN none
             ELSE LET sp == p + 1 <= Len(s) /\ s[p + 1] = SPACE
                      q == IF sp THEN p + 2 ELSE p + 1
                  IN  IF q > Len(s) \/ s[q] \notin SniffQuotes THEN none
                      ELSE LET e == SniffClose(s, q, pat, s[p])
                           IN  IF e = 0 THEN none
                               ELSE [end |-> IF pat = 1 THEN e + 1 ELSE e,
                                     delim |-> s[p], space |-> sp]
        ELSE LET q == IF AtLineStart(s, p) /\ s[p] \in SniffQuotes THEN p
                      ELSE IF s[p] = LF /\ p + 1 <= Len(s)
                              /\ s[p + 1] \in SniffQuotes THEN p + 1
                      ELSE 0
             IN  IF q = 0 THEN none
                 ELSE LET e == SniffClose(s, q, pat, "")
                      IN  IF e = 0 THEN none
                          ELSE IF pat = 4
                          THEN [end |-> e, delim |-> "", space |-> FALSE]
                          ELSE LET sp == e + 2 <= Len(s) /\ s[e + 2] = SPACE
                               IN  [end |-> IF sp THEN e + 2 ELSE e + 1,
                                    delim |-> s[e + 1], space |-> sp]

\* regexp.findall(data): the non-overlapping matches, left to right.
RECURSIVE SniffFindAll(_, _, _)
SniffFindAll(s, p, pat) ==
    IF p > Len(s) THEN << >>
    ELSE LET m == SniffMatchAt(s, p, pat)
         IN  IF m.end = 0 THEN SniffFindAll(s, p + 1, pat)
             ELSE <<m>> \o SniffFindAll(s, m.end + 1, pat)

\* The matches of the first of the four patterns, from pat on, that has any.
RECURSIVE SniffFirstMatches(_, _)
SniffFirstMatches(s, pat) ==
    IF pat > 4 THEN << >>
    ELSE LET m == SniffFindAll(s, 1, pat)
         IN  IF m # << >> THEN m ELSE SniffFirstMatches(s, pat + 1)

\* The matches whose delimiter is one of the candidates.
SniffCounted(matches) ==
    {i \in 1..Len(matches) :
       \E k \in 1..Len(SniffDelimiters) : SniffDelimiters[k] = matches[i].delim}

\* How many counted matches have the delimiter of match i, and the first
\* counted match that has it.
SniffVotes(matches, counted, i) ==
    Cardinality({j \in counted : matches[j].delim = matches[i].delim})

SniffFirstOf(matches, counted, i) ==
    CHOOSE k \in counted :
        /\ matches[k].delim = matches[i].delim
        /\ \A j \in counted : matches[j].delim = matches[i].delim => k <= j

\* max(delims, key=delims.get): the most frequent delimiter, the one seen
\* first among equals.
SniffBest(matches, counted) ==
    CHOOSE i \in counted :
        /\ i = SniffFirstOf(matches, counted, i)
        /\ \A j \in counted :
              \/ SniffVotes(matches, counted, j) < SniffVotes(matches, counted, i)
              \/ /\ SniffVotes(matches, counted, j) = SniffVotes(matches, counted, i)
                 /\ i <= SniffFirstOf(matches, counted, j)

PickQuoteDelimiter(matches, counted) ==
    IF counted = {} THEN [delimiter |-> "", skipinitialspace |-> FALSE]
    ELSE [delimiter |-> matches[SniffBest(matches, counted)].delim,
          skipinitialspace |->
              SniffVotes(matches, counted, SniffBest(matches, counted))
                = Cardinality({i \in counted : matches[i].space})]

\* _guess_quote_and_delimiter: the delimiter next to quoted fields, "" if
\* the sample shows none.
GuessQuoteAndDelimiter(s) ==
    Only({PickQuoteDelimiter(matches, SniffCounted(matches)) :
            matches \in {SniffFirstMatches(s, 1)}})

\* How often the two-character string c followed by d occurs in line
\* (str.count counts non-overlapping occurrences).
RECURSIVE CountPair(_, _, _)
CountPair(line, c, d) ==
    IF Len(line) < 2 THEN 0
    ELSE IF line[1] = c /\ line[2] = d THEN 1 + CountPair(Drop(line, 2), c, d)
    ELSE CountPair(Tail(line), c, d)

\* _guess_delimiter: a candidate that occurs equally often, and at least
\* once, in every non-empty line; among several, the preferred order is
\* comma, tab, semicolon, and then the remaining candidate.
GuessDelimiter(s) ==
    LET lines == NonEmpty(SplitOn(s, LF))
        fits(c) == /\ lines # << >>
                   /\ Count(lines[1], c) > 0
                   /\ \A i \in 1..Len(lines) : Count(lines[i], c) = Count(lines[1], c)
        pick == IF fits(",") THEN "," ELSE IF fits(TAB) THEN TAB
                ELSE IF fits(";") THEN ";" ELSE IF fits("|") THEN "|" ELSE ""
    IN  [delimiter |-> pick,
         skipinitialspace |->
             pick # "" /\ Count(lines[1], pick) = CountPair(lines[1], pick, SPACE)]

\* The length of the sample the code hands to the sniffer.
SniffSample == 4096

\* csv.Sniffer().sniff(csv_text[:4096], delimiters=",;\t|"): the sniffed
\* dialect, or delimiter "" where the sniffer raises csv.Error ("Could not
\* determine delimiter").
Sniff(csv_text) ==
    Only({IF g.delimiter # "" THEN g
          ELSE GuessDelimiter(Take(csv_text, SniffSample)) :
            g \in {GuessQuoteAndDelimiter(Take(csv_text, SniffSample))}})

\* csv.excel as the csv module defines it.
PristineExcel ==
    [delimiter |-> ",", quotechar |-> QUOTE, quoting |-> "QUOTE_MINIMAL",
     doublequote |-> TRUE, skipinitialspace |-> FALSE]

(***************************************************************************)
(* 4.2 csv.reader: the parser of the csv module, one character at a time.  *)
(* d is the dialect the reader was built with.  EOL ends each line the     *)
(* input iterator yields.                                                  *)
(***************************************************************************)
EOL == "<EOL>"

\* csv.field_size_limit(): a longer field is csv.Error.
FieldSizeLimit == 131072

\* A run of FieldSizeLimit ordinary characters (none of them a delimiter, a
\* quote, a line end or white space), held as one element of a text.
RUN == "<RUN>"

\* The number of characters an element of a text stands for.
Width(c) == IF c = RUN THEN FieldSizeLimit ELSE 1

\* field_len counts the characters of the field being read.
ReaderStart ==
    [st |-> "START_RECORD", field |-> << >>, field_len |-> 0,
     fields |-> << >>, rows |-> << >>, err |-> FALSE]

\* parse_add_char, once for each character c stands for: the character
\* added when field_len has reached the limit is csv.Error.
AddChar(r, c, st) ==
    IF r.field_len + Width(c) > FieldSizeLimit THEN [r EXCEPT !.err = TRUE]
    ELSE [r EXCEPT !.field = Append(r.field, c),
                   !.field_len = r.field_len + Width(c), !.st = st]

SaveField(r, st) ==
    [r EXCEPT !.fields = Append(r.fields, r.field), !.field = << >>,
              !.field_len = 0, !.st = st]

IsNewline(c) == c = LF \/ c = CR

AfterNewline(c) == IF c = EOL THEN "START_RECORD" ELSE "EAT_CRNL"

IsQuote(c, d) == c = d.quotechar /\ d.quoting # "QUOTE_NONE"

StartField(r, c, d) ==
    IF IsNewline(c) \/ c = EOL THEN SaveField(r, AfterNewline(c))
    ELSE IF IsQuote(c, d) THEN [r EXCEPT !.st = "IN_QUOTED_FIELD"]
    ELSE IF c = SPACE /\ d.skipinitialspace THEN [r EXCEPT !.st = "START_FIELD"]
    ELSE IF c = d.delimiter THEN SaveField(r, "START_FIELD")
    ELSE AddChar(r, c, "IN_FIELD")

\* parse_process_char
ProcessChar(r, c, d) ==
    CASE r.st = "START_RECORD" ->
           IF c = EOL THEN r
           ELSE IF IsNewline(c) THEN [r EXCEPT !.st = "EAT_CRNL"]
           ELSE StartField(r, c, d)
      [] r.st = "START_FIELD" -> StartField(r, c, d)
      [] r.st = "IN_FIELD" ->
           IF IsNewline(c) \/ c = EOL THEN SaveField(r, AfterNewline(c))
           ELSE IF c = d.delimiter THEN SaveField(r, "START_FIELD")
           ELSE AddChar(r, c, "IN_FIELD")
      [] r.st = "IN_QUOTED_FIELD" ->
           IF c = EOL THEN r
           ELSE IF IsQuote(c, d)
           THEN [r EXCEPT !.st = IF d.doublequote THEN "QUOTE_IN_QUOTED_FIELD"
                                  ELSE "IN_FIELD"]
           ELSE AddChar(r, c, "IN_QUOTED_FIELD")
      [] r.st = "QUOTE_IN_QUOTED_FIELD" ->
           IF IsQuote(c, d) THEN AddChar(r, c, "IN_QUOTED_FIELD")
           ELSE IF c = d.delimiter THEN SaveField(r, "START_FIELD")
           ELSE IF IsNewline(c) \/ c = EOL THEN SaveField(r, AfterNewline(c))
           ELSE AddChar(r, c, "IN_FIELD")
      [] r.st = "EAT_CRNL" ->
           IF IsNewline(c) THEN r
           ELSE IF c = EOL THEN [r EXCEPT !.st = "START_RECORD"]
           ELSE [r EXCEPT !.err = TRUE]

\* Reader_iternext returns the record when a line ends in START_RECORD.
EmitRecord(r) ==
    [r EXCEPT !.rows = Append(r.rows, r.fields), !.fields = << >>,
              !.field = << >>, !.field_len = 0]

\* One line of input: its characters, then EOL.
RECURSIVE ReadChars(_, _, _, _)
ReadChars(r, line, i, d) ==
    IF r.err THEN r
    ELSE IF i > Len(line)
    THEN LET e == ProcessChar(r, EOL, d)
         IN  IF ~e.err /\ e.st = "START_RECORD" THEN EmitRecord(e) ELSE e
    ELSE ReadChars(ProcessChar(r, line[i], d), line, i + 1, d)

\* list(csv.reader(lines, dialect, ...)): the rows, or err for csv.Error.
\* When the input ends inside a record (a quoted field left open), the
\* record read so far is returned.
RECURSIVE ReadLines(_, _, _, _)
ReadLines(r, lines, k, d) ==
    IF r.err THEN r
    ELSE IF k > Len(lines)
    THEN IF r.field_len # 0 \/ r.st = "IN_QUOTED_FIELD"
         THEN EmitRecord(SaveField(r, r.st))
         ELSE r
    ELSE ReadLines(ReadChars(r, lines[k], 1, d), lines, k + 1, d)

CsvReader(lines, d) == ReadLines(ReaderStart, lines, 1, d)

\* The lines io.StringIO(text, newline="") yields: each ends with its
\* line feed, the last one possibly without.
RECURSIVE KeepEndsLines(_)
KeepEndsLines(text) ==
    IF text = << >> THEN << >>
    ELSE IF ~Contains(text, LF) THEN <<text>>
    ELSE LET i == CHOOSE k \in 1..Len(text) :
                      text[k] = LF /\ \A j \in 1..(k - 1) : text[j] # LF
         IN  <<SubSeq(text, 1, i)>> \o KeepEndsLines(Drop(text, i))

\* text.splitlines() of a text whose only line boundary is the line feed:
\* the lines without their ends; a final line feed starts no further line.
SplitLines(text) ==
    LET parts == SplitOn(text, LF)
    IN  IF parts[Len(parts)] = << >> THEN SubSeq(parts, 1, Len(parts) - 1)
        ELSE parts

\* text.replace("\r\n", "\n").replace("\r", "\n")
RECURSIVE NormalizeNewlines(_)
NormalizeNewlines(text) ==
    IF text = << >> THEN << >>
    ELSE IF Head(text) = CR
    THEN <<LF>> \o NormalizeNewlines(
             IF Len(text) >= 2 /\ text[2] = LF THEN Drop(text, 2) ELSE Tail(text))
    ELSE <<Head(text)>> \o NormalizeNewlines(Tail(text))

(***************************************************************************)
(* 4.2 _parse_csv.  An optional value (int | None, SortKey | None) is a    *)
(* sequence: << >> for None, <<v>> for the value v.                        *)
(***************************************************************************)
None == << >>
Some(v) == <<v>>

\* CsvParseOptions() with its defaults.
DefaultParseOptions ==
    [delimiter |-> "auto", has_header |-> TRUE, skip_lines |-> 0,
     limit_lines |-> None, quote_mode |-> "standard", quotechar |-> <<QUOTE>>]

\* The one-character strings: what csv.reader accepts as a delimiter.
OneCharStrings ==
    WordChars \cup Whitespace \cup {",", ";", "|", QUOTE, APOS, ".", "-", "#",
                                    NULCHAR, BOMCHAR}

Digits == <<"0", "1", "2", "3", "4", "5", "6", "7", "8", "9">>

\* str(n) for n >= 0
RECURSIVE IntToStr(_)
IntToStr(n) ==
    IF n < 10 THEN <<Digits[n + 1]>>
    ELSE IntToStr(n \div 10) \o <<Digits[(n % 10) + 1]>>

\* s.replace(c, "") for a character c
RECURSIVE Remove(_, _)
Remove(s, c) ==
    IF s = << >> THEN << >>
    ELSE (IF Head(s) = c THEN << >> ELSE <<Head(s)>>) \o Remove(Tail(s), c)

\* s.lstrip(chars) / s.rstrip(chars) for a set of characters
RECURSIVE LStrip(_, _)
LStrip(s, chars) ==
    IF s # << >> /\ Head(s) \in chars THEN LStrip(Tail(s), chars) ELSE s

RECURSIVE RStrip(_, _)
RStrip(s, chars) ==
    IF s # << >> /\ s[Len(s)] \in chars
    THEN RStrip(SubSeq(s, 1, Len(s) - 1), chars) ELSE s

\* s.strip()
StrStrip(s) == RStrip(LStrip(s, Whitespace), Whitespace)

\* Mutant: the label is taken as it stands.
_clean_header_kept(h) == h

_clean_header(h) == StrStrip(LStrip(Remove(h, NULCHAR), {BOMCHAR}))

\* max(candidates, key=lambda d: first.count(d) if d else -1) or ",":
\* the first candidate with the greatest count.
NaiveDelimiter(first, dialect_delimiter) ==
    LET candidates == <<dialect_delimiter, ";", ",", TAB, "|">>
        key(k) == IF candidates[k] = "" THEN 0 - 1 ELSE Count(first, candidates[k])
        best == CHOOSE k \in 1..5 :
                    /\ \A j \in 1..5 : key(j) <= key(k)
                    /\ \A j \in 1..(k - 1) : key(j) < key(k)
    IN  IF candidates[best] = "" THEN "," ELSE candidates[best]

\* Mutant: the physical lines tried before the whole text.
Tokenize_lines_first(csv_text, dialect) ==
    LET normalized == NormalizeNewlines(csv_text)
        tier1 == CsvReader(KeepEndsLines(normalized), dialect)
        tier2 == CsvReader(SplitLines(normalized), dialect)
        lines == NonEmpty(SplitOn(normalized, LF))
        first == IF lines # << >> THEN lines[1] ELSE << >>
        delim == NaiveDelimiter(first, dialect.delimiter)
    IN  IF ~tier2.err THEN [tier |-> 2, rows |-> tier2.rows]
        ELSE IF ~tier1.err THEN [tier |-> 1, rows |-> tier1.rows]
        ELSE [tier |-> 3,
              rows |-> [k \in 1..Len(lines) |-> SplitOn(lines[k], delim)]]

\* Lines 136-155: the three tiers.  The rows, whichever tier produced them.
Tokenize(csv_text, dialect) ==
    LET normalized == NormalizeNewlines(csv_text)
        tier1 == CsvReader(KeepEndsLines(normalized), dialect)
        tier2 == CsvReader(SplitLines(normalized), dialect)
        lines == NonEmpty(SplitOn(normalized, LF))
        first == IF lines # << >> THEN lines[1] ELSE << >>
        delim == NaiveDelimiter(first, dialect.delimiter)
    IN  IF ~tier1.err THEN [tier |-> 1, rows |-> tier1.rows]
        ELSE IF ~tier2.err THEN [tier |-> 2, rows |-> tier2.rows]
        ELSE [tier |-> 3,
              rows |-> [k \in 1..Len(lines) |-> SplitOn(lines[k], delim)]]

\* max(0, int(opts.skip_lines or 0))
SkipOf(opts) == Max2(0, opts.skip_lines)

\* Mutant: the limit applied before the skip.
SkipLimit_limit_first(reader, opts) ==
    LET limited == IF opts.limit_lines # None
                   THEN Take(reader, Max2(0, opts.limit_lines[1])) ELSE reader
    IN  Drop(limited, Min2(SkipOf(opts), Len(limited)))

\* Lines 157-164: skip, then limit.
SkipLimit(reader, opts) ==
    LET skipped == Drop(reader, Min2(SkipOf(opts), Len(reader)))
    IN  IF opts.limit_lines # None
        THEN Take(skipped, Max2(0, opts.limit_lines[1]))
        ELSE skipped

FieldLabel(i) == <<"F", "i", "e", "l", "d", " ">> \o IntToStr(i)

RECURSIVE MaxLen(_)
MaxLen(rows) ==
    IF rows = << >> THEN 0 ELSE Max2(Len(Head(rows)), MaxLen(Tail(rows)))

\* Lines 166-176: the header and the data rows.
DeriveTable(reader, opts) ==
    IF reader = << >> THEN [headers |-> << >>, rows |-> << >>]
    ELSE IF opts.has_header
    THEN [headers |-> [i \in 1..Len(reader[1]) |-> _clean_header(reader[1][i])],
          rows |-> Tail(reader)]
    ELSE [headers |-> [i \in 1..MaxLen(reader) |-> FieldLabel(i)],
          rows |-> reader]

\* Lines 107-134: the dialect the call parses with, and what the call leaves
\* in csv.excel.  An explicit delimiter is assigned to csv.excel itself; a
\* sniffed dialect is an object of its own; when sniffing raises csv.Error
\* the dialect is csv.excel as the calls before left it.
ResolveDialect(csv_text, opts, ex) ==
  Only({
    LET d0 == IF opts.delimiter = "" THEN "auto" ELSE opts.delimiter
        delim == IF d0 = "tab" THEN TAB ELSE IF d0 = "pipe" THEN "|" ELSE d0
        quotechar == IF opts.quotechar = << >> THEN QUOTE ELSE opts.quotechar[1]
        quoting == IF opts.quote_mode = "no_quotes" THEN "QUOTE_NONE"
                   ELSE "QUOTE_MINIMAL"
        shared == delim # "auto" \/ sniffed.delimiter = ""
        base == IF delim # "auto" THEN [ex EXCEPT !.delimiter = delim]
                ELSE IF sniffed.delimiter # ""
                THEN [PristineExcel EXCEPT
                        !.delimiter = sniffed.delimiter,
                        !.skipinitialspace = sniffed.skipinitialspace]
                ELSE ex
        dialect == [base EXCEPT !.quotechar = quotechar, !.quoting = quoting,
                                !.doublequote = TRUE]
    IN  [dialect |-> dialect, excel |-> IF shared THEN dialect ELSE ex] :
    sniffed \in {Sniff(csv_text)}})

\* _parse_csv(csv_text, opts) run with csv.excel as ex: what it returns (or
\* raises) and what it leaves in csv.excel.  csv.reader refuses a delimiter
\* that is not one character with TypeError, which no handler catches.
_parse_csv(csv_text, opts, ex) ==
    Only({IF r.dialect.delimiter \notin OneCharStrings
          THEN [ret |-> Raise("TypeError"), excel |-> r.excel]
          ELSE [ret |-> Ok(DeriveTable(
                            SkipLimit(Tokenize(csv_text, r.dialect).rows, opts),
                            opts)),
                excel |-> r.excel] :
            r \in {ResolveDialect(csv_text, opts, ex)}})

(***************************************************************************)
(* 4.3 Projector: _parse_positions and _apply_positions.  A positions      *)
(* string is a sequence of characters; None and "" are both << >>.         *)
(***************************************************************************)
\* SUPERSCRIPT TWO: str.isdigit() holds for it, int() refuses it.
SUPER2 == "<U+00B2>"

DecimalDigits == {Digits[k] : k \in 1..10}

\* The characters c with c.isdigit()
IsDigitChars == DecimalDigits \cup {SUPER2}

DigitValue(c) == (CHOOSE k \in 1..10 : Digits[k] = c) - 1

\* int(p) for a string of decimal digits
RECURSIVE DigitsToInt(_)
DigitsToInt(p) ==
    IF p = << >> THEN 0
    ELSE (10 * DigitsToInt(SubSeq(p, 1, Len(p) - 1))) + DigitValue(p[Len(p)])

AllIn(p, chars) == \A k \in 1..Len(p) : p[k] \in chars

\* str.isdigit(): non-empty and every character a digit
IsDigit(p) == p # << >> /\ AllIn(p, IsDigitChars)

\* Lines 96-101: the loop over the stripped, non-empty parts.
RECURSIVE PositionsOf(_)
PositionsOf(parts) ==
    IF parts = << >> THEN Ok(<< >>)
    ELSE LET p == StrStrip(Head(parts))
             rest == PositionsOf(Tail(parts))
         IN  IF p = << >> \/ ~IsDigit(p) THEN rest
             ELSE IF ~AllIn(p, DecimalDigits) THEN Raise("ValueError")
             ELSE IF rest.kind = "raise" THEN rest
             ELSE Ok(<<DigitsToInt(p)>> \o rest.value)

\* The list of positions, << >> standing for None.
_parse_positions(positions) ==
    IF positions = << >> THEN Ok(None)
    ELSE PositionsOf(SplitOn(positions, ","))

\* [x for x in s if P(x)]
RECURSIVE SelectSeq2(_, _)
SelectSeq2(s, keep) ==
    IF s = << >> THEN << >>
    ELSE (IF Head(s) \in keep THEN <<Head(s)>> ELSE << >>)
         \o SelectSeq2(Tail(s), keep)

\* idxs holds the valid positions themselves (1-based), in the given order.
_apply_positions(headers, rows, positions_1based) ==
    LET idxs == SelectSeq2(positions_1based, 1..Len(headers))
    IN  IF positions_1based = << >> \/ idxs = << >>
        THEN [headers |-> headers, rows |-> rows]
        ELSE [headers |-> [k \in 1..Len(idxs) |-> headers[idxs[k]]],
              rows |-> [r \in 1..Len(rows) |->
                          [k \in 1..Len(idxs) |->
                             IF idxs[k] <= Len(rows[r]) THEN rows[r][idxs[k]]
                             ELSE << >>]]]

(***************************************************************************)
(* 4.4 Sorter: float(), the comparison of keys, list.sort and _apply_sort. *)
(* A float is NaN, an infinity, or the exact quotient num / den of the     *)
(* decimal it was parsed from.                                             *)
(***************************************************************************)
NaN == [cls |-> "nan"]
Inf(sign) == [cls |-> "inf", sign |-> sign]
Num(n, d) == [cls |-> "num", num |-> n, den |-> d]
NotAFloat == [cls |-> "error"]

RECURSIVE Pow10(_)
Pow10(n) == IF n = 0 THEN 1 ELSE 10 * Pow10(n - 1)

\* The printable ASCII characters, code points 32 to 126, in order (the
\* grave accent is written <U+0060>).
AsciiPrintable ==
    <<" ", "!", "\"", "#", "$", "%", "&", "'", "(", ")", "*", "+", ",",
      "-", ".", "/", "0", "1", "2", "3", "4", "5", "6", "7", "8", "9", ":",
      ";", "<", "=", ">", "?", "@", "A", "B", "C", "D", "E", "F", "G", "H",
      "I", "J", "K", "L", "M", "N", "O", "P", "Q", "R", "S", "T", "U", "V",
      "W", "X", "Y", "Z", "[", "\\", "]", "^", "_", "<U+0060>", "a", "b", "c",
      "d", "e", "f", "g", "h", "i", "j", "k", "l", "m", "n", "o", "p", "q",
      "r", "s", "t", "u", "v", "w", "x", "y", "z", "{", "|", "}", "~">>

\* ord(c)
CodePointOf(c) ==
    CASE c = NULCHAR -> 0 [] c = TAB -> 9 [] c = LF -> 10 [] c = CR -> 13
      [] c = SUPER2 -> 178 [] c = BOMCHAR -> 65279
      [] OTHER -> 31 + (CHOOSE k \in 1..Len(AsciiPrintable) :
                            AsciiPrintable[k] = c)

UpperLetters == {AsciiPrintable[k] : k \in 34..59}

\* c.lower(), which is also c.casefold(), for ASCII and the characters
\* without case that the model names
LowerChar(c) ==
    IF c \in UpperLetters THEN AsciiPrintable[CodePointOf(c) + 1] ELSE c

LowerSeq(s) == [k \in 1..Len(s) |-> LowerChar(s[k])]

\* An underscore is allowed only between two digits.
UnderscoresOk(s) ==
    \A k \in 1..Len(s) :
        s[k] = "_" => /\ k > 1 /\ s[k - 1] \in DecimalDigits
                      /\ k < Len(s) /\ s[k + 1] \in DecimalDigits

IndexOf(s, chars) ==
    IF \E k \in 1..Len(s) : s[k] \in chars
    THEN CHOOSE k \in 1..Len(s) :
             s[k] \in chars /\ \A j \in 1..(k - 1) : s[j] \notin chars
    ELSE 0

\* [sign] digits
SignedDigits(s) ==
    LET neg == s # << >> /\ Head(s) = "-"
        body == IF s # << >> /\ Head(s) \in {"+", "-"} THEN Tail(s) ELSE s
    IN  IF body = << >> \/ ~AllIn(body, DecimalDigits) THEN << >>
        ELSE <<IF neg THEN 0 - DigitsToInt(body) ELSE DigitsToInt(body)>>

\* digits [. [digits]] | . digits, then [(e|E) [sign] digits]
ParseDecimal(s, neg) ==
    LET e == IndexOf(s, {"e", "E"})
        mant == IF e = 0 THEN s ELSE SubSeq(s, 1, e - 1)
        exp == IF e = 0 THEN <<0>> ELSE SignedDigits(Drop(s, e))
        dot == IndexOf(mant, {"."})
        ip == IF dot = 0 THEN mant ELSE SubSeq(mant, 1, dot - 1)
        fp == IF dot = 0 THEN << >> ELSE Drop(mant, dot)
    IN  IF \/ exp = << >>
           \/ ip \o fp = << >>
           \/ ~AllIn(ip \o fp, DecimalDigits)
        THEN NotAFloat
        ELSE LET m == IF neg THEN 0 - DigitsToInt(ip \o fp)
                      ELSE DigitsToInt(ip \o fp)
                 sc == exp[1] - Len(fp)
             IN  IF sc >= 0 THEN Num(m * Pow10(sc), 1)
                 ELSE Num(m, Pow10(0 - sc))

\* float(v): the value, or NotAFloat where float raises ValueError.
ParseFloat(v) ==
    LET s == StrStrip(v)
        t == Remove(s, "_")
        neg == t # << >> /\ Head(t) = "-"
        body == IF t # << >> /\ Head(t) \in {"+", "-"} THEN Tail(t) ELSE t
        word == LowerSeq(body)
    IN  IF ~UnderscoresOk(s) THEN NotAFloat
        ELSE IF word = <<"n", "a", "n">> THEN NaN
        ELSE IF word \in {<<"i", "n", "f">>,
                          <<"i", "n", "f", "i", "n", "i", "t", "y">>}
        THEN Inf(IF neg THEN 0 - 1 ELSE 1)
        ELSE ParseDecimal(body, neg)

\* s.replace(a, b) for characters a, b
ReplaceChar(s, a, b) == [k \in 1..Len(s) |-> IF s[k] = a THEN b ELSE s[k]]

\* Lines 199-204
to_num(v) ==
    LET f == ParseFloat(ReplaceChar(StrStrip(v), ",", "."))
    IN  IF f = NotAFloat THEN Inf(0 - 1) ELSE f

\* a < b on floats: false whenever either side is NaN
FloatLt(a, b) ==
    IF a.cls = "nan" \/ b.cls = "nan" THEN FALSE
    ELSE IF a.cls = "inf" THEN a.sign < 0 /\ ~(b.cls = "inf" /\ b.sign < 0)
    ELSE IF b.cls = "inf" THEN b.sign > 0
    ELSE a.num * b.den < b.num * a.den

\* a < b on strings: lexicographic by code point
RECURSIVE StrLt(_, _)
StrLt(a, b) ==
    IF b = << >> THEN FALSE
    ELSE IF a = << >> THEN TRUE
    ELSE IF Head(a) = Head(b) THEN StrLt(Tail(a), Tail(b))
    ELSE CodePointOf(Head(a)) < CodePointOf(Head(b))

\* A sort key is a float or a string.
NumKey(f) == [numeric |-> TRUE, f |-> f]
StrKey(t) == [numeric |-> FALSE, t |-> t]
KeyLt(a, b) == IF a.numeric THEN FloatLt(a.f, b.f) ELSE StrLt(a.t, b.t)

Reverse(s) == [k \in 1..Len(s) |-> s[Len(s) + 1 - k]]

\* count_run: the length of the run the list starts with, and whether it
\* is strictly descending.
CountRun(items) ==
    IF Len(items) < 2 THEN [n |-> Len(items), descending |-> FALSE]
    ELSE LET desc == KeyLt(items[2].key, items[1].key)
             goes(j) == KeyLt(items[j].key, items[j - 1].key) = desc
             n == CHOOSE m \in 2..Len(items) :
                      /\ \A j \in 3..m : goes(j)
                      /\ m < Len(items) => ~goes(m + 1)
         IN  [n |-> n, descending |-> desc]

\* The insertion point of pivot in items[l .. r-1], by bisection.
RECURSIVE Bisect(_, _, _, _)
Bisect(items, pivot, l, r) ==
    IF l >= r THEN l
    ELSE LET p == l + ((r - l) \div 2)
         IN  IF KeyLt(pivot.key, items[p].key) THEN Bisect(items, pivot, l, p)
             ELSE Bisect(items, pivot, p + 1, r)

\* binarysort: items[1 .. start-1] is taken as sorted; each later item is
\* inserted where the bisection lands.
RECURSIVE BinarySort(_, _)
BinarySort(items, start) ==
    IF start > Len(items) THEN items
    ELSE LET pivot == items[start]
             l == Bisect(items, pivot, 1, start)
         IN  BinarySort(SubSeq(items, 1, l - 1) \o <<pivot>>
                          \o SubSeq(items, l, start - 1)
                          \o SubSeq(items, start + 1, Len(items)),
                        start + 1)

\* list.sort on a list shorter than 64 items, which is a single run:
\* the natural run is found (and reversed if descending), the rest is
\* inserted by bisection; reverse=True reverses before and after.
ListSort(items, reverse) ==
    LET given == IF reverse THEN Reverse(items) ELSE items
        run == CountRun(given)
        lead == IF run.descending
                THEN Reverse(SubSeq(given, 1, run.n))
                       \o SubSeq(given, run.n + 1, Len(given))
                ELSE given
        sorted == BinarySort(lead, run.n + 1)
    IN  IF reverse THEN Reverse(sorted) ELSE sorted

\* str.lower() of an option word
LowerWord(w) ==
    CASE w \in {"DESC", "Desc"} -> "desc"
      [] w \in {"ASC", "Asc"} -> "asc"
      [] w \in {"NUMERIC", "Numeric"} -> "numeric"
      [] w \in {"STRING", "String"} -> "string"
      [] w \in {"FULL", "Full"} -> "full"
      [] w \in {"CRLF", "Crlf"} -> "crlf"
      [] OTHER -> w

\* SortKey(field_1based) with its defaults.
DefaultSortKey(field_1based) ==
    [field_1based |-> field_1based, type |-> "string", direction |-> "asc",
     ignore_case |-> TRUE]

\* Mutant: the field index used as it comes, a column that does not exist
\* read as the empty string.
_apply_sort_unclamped(rows, key, headers_len) ==
    LET idx == key.field_1based - 1
        get_val(r) == IF 0 <= idx /\ idx < Len(r) THEN r[idx + 1] ELSE << >>
        reverse == LowerWord(IF key.direction = "" THEN "asc"
                             ELSE key.direction) = "desc"
        typ == LowerWord(IF key.type = "" THEN "string" ELSE key.type)
        keyOf(r) == IF typ = "numeric" THEN NumKey(to_num(get_val(r)))
                    ELSE IF key.ignore_case THEN StrKey(LowerSeq(get_val(r)))
                    ELSE StrKey(get_val(r))
        items == [k \in 1..Len(rows) |-> [key |-> keyOf(rows[k]), row |-> rows[k]]]
        sorted == ListSort(items, reverse)
    IN  [k \in 1..Len(rows) |-> sorted[k].row]

\* Lines 193-215.  idx is the clamped column, 0-based as in the code.
_apply_sort(rows, key, headers_len) ==
    LET idx == Max2(0, Min2(headers_len - 1, key.field_1based - 1))
        get_val(r) == IF idx < Len(r) THEN r[idx + 1] ELSE << >>
        reverse == LowerWord(IF key.direction = "" THEN "asc"
                             ELSE key.direction) = "desc"
        typ == LowerWord(IF key.type = "" THEN "string" ELSE key.type)
        keyOf(r) == IF typ = "numeric" THEN NumKey(to_num(get_val(r)))
                    ELSE IF key.ignore_case THEN StrKey(LowerSeq(get_val(r)))
                    ELSE StrKey(get_val(r))
        items == [k \in 1..Len(rows) |-> [key |-> keyOf(rows[k]), row |-> rows[k]]]
        sorted == ListSort(items, reverse)
    IN  [k \in 1..Len(rows) |-> sorted[k].row]

(***************************************************************************)
(* 4.5 Renderers: the pieces both share.                                   *)
(***************************************************************************)
BACKSLASH == "\\"

\* The three line-break replacements of _escape_md_cell, left to right.
RECURSIVE ReplaceLineBreaks(_)
ReplaceLineBreaks(v) ==
    IF v = << >> THEN << >>
    ELSE IF Len(v) >= 2 /\ v[1] = CR /\ v[2] = LF
    THEN <<SPACE>> \o ReplaceLineBreaks(Drop(v, 2))
    ELSE IF Head(v) \in {CR, LF} THEN <<SPACE>> \o ReplaceLineBreaks(Tail(v))
    ELSE <<Head(v)>> \o ReplaceLineBreaks(Tail(v))

RECURSIVE EscapePipes(_)
EscapePipes(v) ==
    IF v = << >> THEN << >>
    ELSE (IF Head(v) = "|" THEN <<BACKSLASH, "|">> ELSE <<Head(v)>>)
         \o EscapePipes(Tail(v))

_escape_md_cell(value) ==
    ReplaceLineBreaks(EscapePipes(Remove(value, NULCHAR)))

EndsWith(s, suffix) ==
    Len(s) >= Len(suffix)
    /\ SubSeq(s, Len(s) - Len(suffix) + 1, Len(s)) = suffix

_normalize_preamble(preamble) ==
    IF preamble = << >> THEN << >>
    ELSE LET p1 == IF EndsWith(preamble, <<LF>>) THEN preamble
                   ELSE preamble \o <<LF>>
         IN  IF EndsWith(p1, <<LF, LF>>) THEN p1 ELSE p1 \o <<LF>>

\* sep.join(parts)
RECURSIVE Join(_, _)
Join(parts, sep) ==
    IF parts = << >> THEN << >>
    ELSE IF Len(parts) = 1 THEN parts[1]
    ELSE parts[1] \o sep \o Join(Tail(parts), sep)

\* Mutant: the rows are left in the order of the input.
SortedTable_unsorted(t, sort) == t

\* Lines 237-238: the rows sorted when a sort key is given and there is a
\* header.
SortedTable(t, sort) ==
    [headers |-> t.headers,
     rows |-> IF sort # None /\ t.headers # << >>
              THEN _apply_sort(t.rows, sort[1], Len(t.headers))
              ELSE t.rows]

\* Lines 233-238 and 313-318, the same in both renderers: parse, project,
\* sort.
\* The table, or the exception, and what is left in csv.excel.
PreparedTable(csv_text, parse, positions, sort, ex) ==
    Only({IF parsed.ret.kind = "raise" THEN parsed
          ELSE IF pos.kind = "raise" THEN [ret |-> pos, excel |-> parsed.excel]
          ELSE [ret |-> Ok(SortedTable(
                             _apply_positions(parsed.ret.value.headers,
                                              parsed.ret.value.rows, pos.value),
                             sort)),
                excel |-> parsed.excel] :
            parsed \in {_parse_csv(csv_text, parse, ex)},
            pos \in {_parse_positions(positions)}})

(***************************************************************************)
(* 4.5 Table renderer: csv_text_to_markdown_table.                         *)
(***************************************************************************)
\* "| " + " | ".join(cells) + " |"
PipeRow(cells) == <<"|", SPACE>> \o Join(cells, <<SPACE, "|", SPACE>>) \o <<SPACE, "|">>

\* "|| " + " || ".join(cells) + " ||"
JiraHeaderRow(cells) ==
    <<"|", "|", SPACE>> \o Join(cells, <<SPACE, "|", "|", SPACE>>)
      \o <<SPACE, "|", "|">>

\* Mutant: a separator of one segment whatever the header.
SeparatorRow_single(n) == <<"|", "-", "-", "-", "|">>

\* "|" + "|".join(["---"] * n) + "|"
SeparatorRow(n) ==
    <<"|">> \o Join([k \in 1..n |-> <<"-", "-", "-">>], <<"|">>) \o <<"|">>

EscapedCells(row) == [k \in 1..Len(row) |-> _escape_md_cell(row[k])]

\* Lines 240-263: the text of the table for headers and rows.
TableText(headers0, rows0, preamble, add_line_numbers, eol, table_style) ==
    LET headers == IF add_line_numbers THEN <<<<"#">>>> \o headers0 ELSE headers0
        rows == IF add_line_numbers
                THEN [i \in 1..Len(rows0) |-> <<IntToStr(i)>> \o rows0[i]]
                ELSE rows0
        headers_escaped == EscapedCells(headers)
        head == IF table_style = "jira" THEN <<JiraHeaderRow(headers_escaped)>>
                ELSE <<PipeRow(headers_escaped),
                       SeparatorRow(Len(headers_escaped))>>
        out == head \o [i \in 1..Len(rows) |-> PipeRow(EscapedCells(rows[i]))]
        line_ending == IF LowerWord(IF eol = "" THEN "lf" ELSE eol) = "crlf"
                       THEN <<CR, LF>> ELSE <<LF>>
    IN  _normalize_preamble(preamble) \o Join(out, line_ending) \o line_ending

\* The returned string, or the exception, and what is left in csv.excel.
csv_text_to_markdown_table(csv_text, preamble, parse, positions, add_line_numbers, sort, eol, table_style, ex) ==
    Only({IF t.ret.kind = "raise" THEN t
          ELSE [ret |-> Ok(TableText(t.ret.value.headers, t.ret.value.rows,
                                     preamble, add_line_numbers, eol,
                                     table_style)),
                excel |-> t.excel] :
            t \in {PreparedTable(csv_text, parse, positions, sort, ex)}})

(***************************************************************************)
(* 4.5 Outline renderer: csv_text_to_markdown_notebooklm.                  *)
(***************************************************************************)
NOTEBOOKLM_MIN_FIELDS ==
    <<
      <<"K", "e", "y", "w", "o", "r", "d">>,
      <<"C", "o", "u", "n", "t", "r", "y">>,
      <<"L", "a", "n", "g", "u", "a", "g", "e", "s">>,
      <<"V", "o", "l", "u", "m", "e">>,
      <<"G", "l", "o", "b", "a", "l", " ", "v", "o", "l", "u", "m", "e">>,
      <<"K", "D">>,
      <<"D", "i", "f", "f", "i", "c", "u", "l", "t", "y">>,
      <<"K", "e", "y", "w", "o", "r", "d", " ", "d", "i", "f", "f", "i", "c", "u", "l", "t", "y">>,
      <<"C", "P", "C">>,
      <<"C", "P", "S">>,
      <<"T", "r", "a", "f", "f", "i", "c", " ", "p", "o", "t", "e", "n", "t", "i", "a", "l">>,
      <<"G", "l", "o", "b", "a", "l", " ", "t", "r", "a", "f", "f", "i", "c", " ", "p", "o", "t", "e", "n", "t", "i", "a", "l">>,
      <<"S", "E", "R", "P", " ", "f", "e", "a", "t", "u", "r", "e", "s">>,
      <<"S", "E", "R", "P", " ", "F", "e", "a", "t", "u", "r", "e", "s">>,
      <<"C", "u", "r", "r", "e", "n", "t", " ", "o", "r", "g", "a", "n", "i", "c", " ", "t", "r", "a", "f", "f", "i", "c">>,
      <<"P", "r", "e", "v", "i", "o", "u", "s", " ", "o", "r", "g", "a", "n", "i", "c", " ", "t", "r", "a", "f", "f", "i", "c">>,
      <<"O", "r", "g", "a", "n", "i", "c", " ", "t", "r", "a", "f", "f", "i", "c", " ", "c", "h", "a", "n", "g", "e">>,
      <<"C", "u", "r", "r", "e", "n", "t", " ", "p", "o", "s", "i", "t", "i", "o", "n">>,
      <<"P", "r", "e", "v", "i", "o", "u", "s", " ", "p", "o", "s", "i", "t", "i", "o", "n">>,
      <<"C", "u", "r", "r", "e", "n", "t", " ", "U", "R", "L">>,
      <<"P", "r", "e", "v", "i", "o", "u", "s", " ", "U", "R", "L">>,
      <<"P", "a", "r", "e", "n", "t", " ", "K", "e", "y", "w", "o", "r", "d">>,
      <<"P", "a", "r", "e", "n", "t", " ", "k", "e", "y", "w", "o", "r", "d">>,
      <<"L", "a", "s", "t", " ", "U", "p", "d", "a", "t", "e">>,
      <<"L", "a", "s", "t", " ", "u", "p", "d", "a", "t", "e">>,
      <<"F", "i", "r", "s", "t", " ", "s", "e", "e", "n">>,
      <<"I", "n", "t", "e", "n", "t", "s">>,
      <<"I", "n", "t", "e", "n", "t">>
    >>

ExportHeading ==
    <<"#", "#", " ", "E", "x", "p", "o", "r", "t", " ", "(", "N", "o", "t",
      "e", "b", "o", "o", "k", "L", "M", ")", LF>>

RowCountLabel ==
    <<"-", " ", "*", "*", "<U+0158>", "<U+00E1>", "d", "k", "<U+016F>", "*",
      "*", ":", " ">>

ModeLabel ==
    <<"-", " ", "*", "*", "R", "e", "<U+017E>", "i", "m", "*", "*", ":",
      " ">>

RecordsHeading ==
    <<"#", "#", " ", "Z", "<U+00E1>", "z", "n", "a", "m", "y", LF>>

RowLabel ==
    <<"<U+0158>", "<U+00E1>", "d", "e", "k", " ">>

HttpPrefix == <<"h", "t", "t", "p", ":", "/", "/">>
HttpsPrefix == <<"h", "t", "t", "p", "s", ":", "/", "/">>

\* The values of a dict built from (key, value) pairs in order: the value
\* of the last pair with the key k, or << >> (absent) when there is none.
DictGet(keys, values, k) ==
    LET hits == {j \in 1..Len(keys) : keys[j] = k}
    IN  IF hits = {} THEN None
        ELSE Some(values[CHOOSE j \in hits : \A i \in hits : i <= j])

\* list.index(x): the first position of x, 1-based; 0 when absent.
ListIndex(list, x) == IndexOf(list, {x})

KeywordKey == <<"k", "e", "y", "w", "o", "r", "d">>

\* [header_map[f.lower()] for f in NOTEBOOKLM_MIN_FIELDS if f.lower() in header_map]
RECURSIVE AllowlistFields(_, _, _)
AllowlistFields(allow, cleaned, headers) ==
    IF allow = << >> THEN << >>
    ELSE DictGet(cleaned, headers, LowerSeq(Head(allow)))
         \o AllowlistFields(Tail(allow), cleaned, headers)

\* rows[:max_rows]
SliceTo(rows, max_rows) ==
    IF max_rows < 0 THEN Take(rows, Max2(0, Len(rows) + max_rows))
    ELSE Take(rows, Min2(max_rows, Len(rows)))

\* Lines 357-367: the bullets of one record.
RECURSIVE Bullets(_, _, _, _)
Bullets(fields, headers, values, keyword_header) ==
    IF fields = << >> THEN << >>
    ELSE LET h == Head(fields)
             got == DictGet(headers, values, h)
             v == StrStrip(_escape_md_cell(IF got = None THEN << >> ELSE got[1]))
             shown == IF StartsWith(v, HttpPrefix) \/ StartsWith(v, HttpsPrefix)
                      THEN <<"<">> \o v \o <<">">> ELSE v
             rest == Bullets(Tail(fields), headers, values, keyword_header)
         IN  IF keyword_header # None /\ h = keyword_header[1] THEN rest
             ELSE IF v = << >> THEN rest
             ELSE <<<<"-", SPACE, "*", "*">> \o h \o <<"*", "*", ":", SPACE>>
                      \o shown>> \o rest

\* Lines 349-368: the lines of record i, keyword_idx 1-based.
RecordLines(i, row, headers, fields, keyword_header, keyword_idx) ==
    LET values == [j \in 1..Len(headers) |->
                     IF j <= Len(row) THEN row[j] ELSE << >>]
        kw0 == StrStrip(_escape_md_cell(values[keyword_idx]))
        kw == IF kw0 = << >> THEN RowLabel \o IntToStr(i) ELSE kw0
    IN  <<<<"#", "#", "#", SPACE>> \o kw>>
          \o Bullets(fields, headers, values, keyword_header) \o <<<< >>>>

RECURSIVE AllRecordLines(_, _, _, _, _, _)
AllRecordLines(i, rows, headers, fields, keyword_header, keyword_idx) ==
    IF i > Len(rows) THEN << >>
    ELSE RecordLines(i, rows[i], headers, fields, keyword_header, keyword_idx)
         \o AllRecordLines(i + 1, rows, headers, fields, keyword_header,
                           keyword_idx)

\* Lines 320-370: the text of the outline for headers and rows, or
\* IndexError: values[keyword_idx] of a record when there is no header.
OutlineText(headers, rows0, preamble, detail, max_rows) ==
    LET cleaned == [j \in 1..Len(headers) |-> LowerSeq(_clean_header(headers[j]))]
        full == LowerWord(detail) = "full"
        matched == AllowlistFields(NOTEBOOKLM_MIN_FIELDS, cleaned, headers)
        keyword_header == DictGet(cleaned, headers, KeywordKey)
        fields == IF full THEN headers
                  ELSE IF \/ matched = << >>
                          \/ /\ keyword_header # None
                             /\ \A k \in 1..Len(matched) :
                                    matched[k] = keyword_header[1]
                  THEN Take(headers, Min2(Len(headers), 8))
                  ELSE matched
        keyword_idx == IF keyword_header # None
                       THEN ListIndex(headers, keyword_header[1]) ELSE 1
        rows == IF max_rows = None THEN rows0 ELSE SliceTo(rows0, max_rows[1])
        out == <<ExportHeading,
                 RowCountLabel \o IntToStr(Len(rows)),
                 ModeLabel \o (IF full THEN <<"f", "u", "l", "l">>
                               ELSE <<"m", "i", "n", "i", "m", "a", "l">>),
                 << >>,
                 RecordsHeading>>
               \o AllRecordLines(1, rows, headers, fields, keyword_header,
                                 keyword_idx)
    IN  IF rows # << >> /\ headers = << >> THEN Raise("IndexError")
        ELSE Ok(_normalize_preamble(preamble)
                  \o RStrip(Join(out, <<LF>>), Whitespace) \o <<LF>>)

\* The returned string, or the exception, and what is left in csv.excel.
csv_text_to_markdown_notebooklm(csv_text, preamble, detail, max_rows, parse, positions, sort, ex) ==
    Only({IF t.ret.kind = "raise" THEN t
          ELSE [ret |-> OutlineText(t.ret.value.headers, t.ret.value.rows,
                                    preamble, detail, max_rows),
                excel |-> t.excel] :
            t \in {PreparedTable(csv_text, parse, positions, sort, ex)}})

(***************************************************************************)
(* app.convert: the handler of POST /convert.  It is a coroutine on one    *)
(* event loop: it runs up to `await file.read()`, and from there to its    *)
(* response without yielding.                                              *)
(***************************************************************************)
\* The character of a code point the model has a character for.
CharOf(cp) ==
    CASE cp = 0 -> NULCHAR [] cp = 9 -> TAB [] cp = 10 -> LF [] cp = 13 -> CR
      [] cp = 178 -> SUPER2 [] cp = 65279 -> BOMCHAR
      [] OTHER -> AsciiPrintable[cp - 31]

CharsOf(text) == [k \in 1..Len(text) |-> CharOf(text[k])]

\* _int_or_none: None for a blank string and for one int() refuses.
\* int() takes an optional sign and decimal digits, underscores allowed
\* between digits.
_int_or_none(str) ==
    LET t == StrStrip(str)
        neg == t # << >> /\ Head(t) = "-"
        body == IF t # << >> /\ Head(t) \in {"+", "-"} THEN Tail(t) ELSE t
        digits == Remove(body, "_")
    IN  IF digits = << >> \/ ~AllIn(digits, DecimalDigits) \/ ~UnderscoresOk(body)
        THEN None
        ELSE Some(IF neg THEN 0 - DigitsToInt(digits) ELSE DigitsToInt(digits))

\* The form as the page submits it when nothing is filled in.
DefaultForm(raw) ==
    [raw |-> raw, format |-> "notebooklm", encoding |-> "auto",
     delimiter |-> "auto", has_header |-> TRUE, skip_lines |-> <<"0">>,
     limit_lines |-> << >>, fields |-> << >>, sort_field |-> << >>,
     sort_type |-> "string", sort_dir |-> "asc", ignore_case |-> TRUE,
     line_numbers |-> FALSE, eol |-> "lf", quote_mode |-> "standard",
     quotechar |-> <<QUOTE>>]

OrElse(word, default) == IF word = "" THEN default ELSE word

\* Lines 497-581 of convert, from the decoded upload to the response: the
\* Markdown body written to the output file (after the fixed context
\* header) with status 303, or the exception that leaves the handler
\* (status 500); and what is left in csv.excel.
ConvertUpload(form, ex) ==
    Only({IF decoded.kind = "raise" THEN [ret |-> decoded, excel |-> ex]
          ELSE IF form.format \in {"table", "jira"}
          THEN csv_text_to_markdown_table(
                   CharsOf(decoded.value), << >>, parse, form.fields,
                   form.line_numbers, sort, form.eol,
                   IF form.format = "table" THEN "markdown" ELSE "jira", ex)
          ELSE csv_text_to_markdown_notebooklm(
                   CharsOf(decoded.value), << >>, "full", None, parse,
                   form.fields, sort, ex) :
            decoded \in {decode_csv_bytes_with_encoding(form.raw, form.encoding)},
            parse \in {LET skip == _int_or_none(form.skip_lines)
                       IN  [delimiter |-> form.delimiter,
                            has_header |-> form.has_header,
                            skip_lines |-> IF skip = None THEN 0 ELSE skip[1],
                            limit_lines |-> _int_or_none(form.limit_lines),
                            quote_mode |-> OrElse(form.quote_mode, "standard"),
                            quotechar |-> IF form.quotechar = << >> THEN <<QUOTE>>
                                          ELSE form.quotechar]},
            sort \in {LET sf == _int_or_none(form.sort_field)
                      IN  IF sf # None /\ sf[1] > 0
                          THEN Some([field_1based |-> sf[1],
                                     type |-> OrElse(form.sort_type, "string"),
                                     direction |-> OrElse(form.sort_dir, "asc"),
                                     ignore_case |-> form.ignore_case])
                          ELSE None}})

(***************************************************************************)
(* The shared state a conversion can touch, and the state every            *)
(* specification starts the parts it does not exercise in.                 *)
(***************************************************************************)
Procs == {1, 2}

Idle == [pc |-> "idle"]

NoCall == [fn |-> "none"]

(***************************************************************************)
(* Decoder specification: one buffer and one encoding hint, decoded once.  *)
(* A buffer is an optional byte-order mark followed by up to MaxBody bytes *)
(* drawn from BodyBytes: NUL, "A", the two bytes of UTF-8 "ř" (C5 99; 99   *)
(* alone is a stray continuation byte), 81 (undefined in cp1250) and D8    *)
(* (the high byte of a UTF-16 surrogate).                                  *)
(***************************************************************************)
MaxBody == 3

BodyBytes == {0, 65, 197, 153, 129, 216}

BomPrefixes == {<< >>, Utf8Bom, Utf16LeBom, Utf16BeBom}

Buffers == {p \o b : p \in BomPrefixes, b \in SeqsUpTo(BodyBytes, MaxBody)}

EncodingHints ==
    {"auto", "", "utf-8", " UTF-8 ", "utf-16", "cp1250", "latin-1", "ascii",
     "bogus"}

InitDecode ==
    /\ call \in
         {[fn |-> "decode_csv_bytes_with_encoding", raw |-> b, encoding |-> h] :
            b \in Buffers, h \in EncodingHints}
         \cup {[fn |-> "decode_csv_bytes", raw |-> b, encoding |-> "auto"] :
                 b \in Buffers}
    /\ ret = NoRet
    /\ excel = PristineExcel
    /\ inflight = [p \in Procs |-> Idle]

\* csv_to_md.py decodes its input file with decode_csv_bytes.
DecodeCsvBytes ==
    /\ call.fn = "decode_csv_bytes"
    /\ ret = NoRet
    /\ ret' = decode_csv_bytes(call.raw)
    /\ UNCHANGED <<call, excel, inflight>>

\* app.convert decodes the upload with decode_csv_bytes_with_encoding.
DecodeCsvBytesWithEncoding ==
    /\ call.fn = "decode_csv_bytes_with_encoding"
    /\ ret = NoRet
    /\ ret' = decode_csv_bytes_with_encoding(call.raw, call.encoding)
    /\ UNCHANGED <<call, excel, inflight>>

NextDecode == DecodeCsvBytes \/ DecodeCsvBytesWithEncoding

SpecDecode == InitDecode /\ [][NextDecode]_vars

(***************************************************************************)
(* Decoder claims.                                                         *)
(***************************************************************************)
\* The encoders the claims speak of: the UTF-8 and UTF-16 encoding of a text.
Utf8EncodeChar(c) ==
    IF c < 128 THEN <<c>>
    ELSE IF c < 2048 THEN <<192 + (c \div 64), 128 + (c % 64)>>
    ELSE IF c < 65536
    THEN <<224 + (c \div 4096), 128 + ((c \div 64) % 64), 128 + (c % 64)>>
    ELSE <<240 + (c \div 262144), 128 + ((c \div 4096) % 64),
           128 + ((c \div 64) % 64), 128 + (c % 64)>>

RECURSIVE Utf8Encode(_)
Utf8Encode(t) ==
    IF t = << >> THEN << >> ELSE Utf8EncodeChar(Head(t)) \o Utf8Encode(Tail(t))

Utf16EncodeUnit(u, big) ==
    IF big THEN <<u \div 256, u % 256>> ELSE <<u % 256, u \div 256>>

RECURSIVE Utf16Encode(_, _)
Utf16Encode(t, big) ==
    IF t = << >> THEN << >>
    ELSE (IF Head(t) < 65536
          THEN Utf16EncodeUnit(Head(t), big)
          ELSE Utf16EncodeUnit(55296 + ((Head(t) - 65536) \div 1024), big)
               \o Utf16EncodeUnit(56320 + ((Head(t) - 65536) % 1024), big))
         \o Utf16Encode(Tail(t), big)

Decoded == ret # NoRet /\ call.fn \in {"decode_csv_bytes", "decode_csv_bytes_with_encoding"}

\* The hint a decode call runs under, normalised as the code normalises it.
HintOf(c) == IF c.fn = "decode_csv_bytes" THEN "auto" ELSE StripLower(c.encoding)

\* The characters whose UTF-8 encoding the model's buffers can hold:
\* NUL, "A", U+0141, U+0159 ("ř"), U+0601, U+0619.
TextChars == {0, 65, 321, 345, 1537, 1561}

\* The texts over TextChars whose UTF-8 encoding is the buffer raw (at most
\* one): a first character whose encoding starts raw, then a text encoded as
\* the rest.
RECURSIVE TextsEncodedAs(_)
TextsEncodedAs(raw) ==
    IF raw = << >> THEN {<< >>}
    ELSE UNION {{<<c>> \o r : r \in TextsEncodedAs(Drop(raw, Len(Utf8EncodeChar(c))))} :
                  c \in {d \in TextChars : StartsWith(raw, Utf8EncodeChar(d))}}

\* C3: decode with the `auto` hint returns a text and never raises, for every
\* byte buffer.
C3_AutoDecodeNeverRaises ==
    (Decoded /\ HintOf(call) = "auto") => ret.kind = "ok"

\* C4 as stated: for every text t whose UTF-8 encoding does not begin with a
\* byte-order mark, NUL characters included, decode(utf8_encode(t), hint)
\* returns exactly t, for hint `auto` and for hint `utf-8`.
C4_RoundTripEveryText ==
    (Decoded /\ HintOf(call) \in {"auto", "utf-8"})
        => \A t \in TextsEncodedAs(call.raw) : ret = Ok(t)

\* C4 amended: under hint `utf-8` every such text round-trips; under hint
\* `auto` every such text without a NUL character round-trips.
C4_RoundTripWithoutNul ==
    (Decoded /\ HintOf(call) \in {"auto", "utf-8"})
        => \A t \in TextsEncodedAs(call.raw) :
              (HintOf(call) = "utf-8" \/ ~Contains(t, NUL)) => ret = Ok(t)

\* C4 witness: a non-ASCII text came back from its UTF-8 encoding under `auto`,
\* and a text with a NUL came back under `utf-8`.
C4_Witness ==
    /\ Decoded
    /\ \/ HintOf(call) = "auto" /\ call.raw = <<65, 197, 153>>
          /\ ret = Ok(<<65, 345>>)
       \/ HintOf(call) = "utf-8" /\ call.raw = <<65, 0>> /\ ret = Ok(<<65, 0>>)

\* What an explicit hint of one of the three named encodings must do: a text
\* is returned only when the buffer (after the byte-order mark the decoder
\* strips) is exactly that text's encoding, so a buffer with bytes invalid in
\* the encoding yields UnicodeDecodeError, never a substituted text.
ExplicitHintIsStrict ==
    LET enc == HintOf(call)
        raw == call.raw
    IN  /\ enc \in {"utf-8", "utf-16", "cp1250"} =>
              \/ ret = Raise("UnicodeDecodeError")
              \/ /\ ret.kind = "ok"
                 /\ enc = "utf-8" =>
                      Utf8Encode(ret.value) =
                          (IF StartsWith(raw, Utf8Bom) THEN Drop(raw, 3) ELSE raw)
                 /\ enc = "utf-16" =>
                      IF StartsWith(raw, Utf16BeBom)
                      THEN Utf16Encode(ret.value, TRUE) = Drop(raw, 2)
                      ELSE Utf16Encode(ret.value, FALSE) =
                          (IF StartsWith(raw, Utf16LeBom) THEN Drop(raw, 2) ELSE raw)
                 /\ enc = "cp1250" =>
                      /\ Len(ret.value) = Len(raw)
                      /\ \A i \in 1..Len(raw) :
                            /\ raw[i] \notin Cp1250Undefined
                            /\ raw[i] < 128 => ret.value[i] = raw[i]
                            /\ raw[i] >= 128 => ret.value[i] >= 128
        /\ (enc \in {"utf-8", "utf-16", "cp1250"} /\ ret.kind = "raise") =>
              \* the error is real: no text has this buffer as its encoding
              /\ enc = "utf-8" => TextsEncodedAs(IF StartsWith(raw, Utf8Bom)
                                                    THEN Drop(raw, 3) ELSE raw) = {}
              /\ enc = "cp1250" => \E i \in 1..Len(raw) : raw[i] \in Cp1250Undefined
              /\ enc = "utf-16" =>
                    \/ Len(raw) % 2 = 1
                    \/ \E i \in 1..Len(raw) :
                          raw[i] = 216 /\ i % 2 = (IF StartsWith(raw, Utf16BeBom) THEN 1 ELSE 0)

\* A text decoded from raw with a lossy substitution: one character per byte,
\* an ASCII byte as itself, any other byte as its character or as U+FFFD.
LossyTextOf(raw, text) ==
    /\ Len(text) = Len(raw)
    /\ \A i \in 1..Len(raw) :
          IF raw[i] < 128 THEN text[i] = raw[i]
          ELSE text[i] \in {raw[i], ReplacementChar}

MaxSkipRows == 4

SkipRowLines == {<<"a">>, <<"b", ",", "a">>, << >>}

\* Each line followed by its line feed.
RECURSIVE TerminatedLines(_)
TerminatedLines(ls) ==
    IF ls = << >> THEN << >>
    ELSE Head(ls) \o <<LF>> \o TerminatedLines(Tail(ls))

SkipTexts == {TerminatedLines(ls) : ls \in SeqsUpTo(SkipRowLines, MaxSkipRows)}

SkipOptions ==
    {[DefaultParseOptions EXCEPT !.delimiter = ",", !.has_header = h,
                                 !.skip_lines = sk, !.limit_lines = lim] :
       h \in BOOLEAN, sk \in {0 - 1, 0, 1, 2},
       lim \in {None, Some(0 - 1), Some(0), Some(1), Some(2)}}

MaxHeaderText == 4

HeaderChars == {"a", ",", LF, SPACE, BOMCHAR, NULCHAR}

HeaderTexts == SeqsUpTo(HeaderChars, MaxHeaderText)

HeaderOptions ==
    {[DefaultParseOptions EXCEPT !.delimiter = ",", !.has_header = h] :
       h \in BOOLEAN}

ParseCalls ==
    {[fn |-> "_parse_csv", csv_text |-> t, opts |-> o] :
       t \in SkipTexts, o \in SkipOptions}
    \cup {[fn |-> "_parse_csv", csv_text |-> t, opts |-> o] :
            t \in HeaderTexts, o \in HeaderOptions}

InitParse ==
    /\ call \in ParseCalls
    /\ ret = NoRet
    /\ excel = PristineExcel
    /\ inflight = [p \in Procs |-> Idle]

ParseCsv ==
    /\ call.fn = "_parse_csv"
    /\ ret = NoRet
    /\ \E r \in {_parse_csv(call.csv_text, call.opts, excel)} :
         ret' = r.ret /\ excel' = r.excel
    /\ UNCHANGED <<call, inflight>>

NextParse == ParseCsv

SpecParse == InitParse /\ [][NextParse]_vars

\* The rows the tokenizer yields for the call, before skip and limit.
TokenizedRows ==
    Tokenize(call.csv_text,
             ResolveDialect(call.csv_text, call.opts, PristineExcel).dialect).rows

ParseDone == call.fn = "_parse_csv" /\ ret.kind = "ok"

\* C7: skip, then limit, then the header.  With n tokenized rows the first
\* max(0, skip_lines) are dropped and of the rest at most max(0, limit_lines)
\* are kept when a limit is set: k = min(max(0, n - skip), limit) rows are
\* kept (k = max(0, n - skip) without a limit), they are rows skip+1 ..
\* skip+k of the tokenized sequence; with has_header the header is the first
\* kept row and max(0, k - 1) data rows follow, without it every kept row is
\* a data row.
C7_SkipThenLimit ==
    ParseDone =>
      LET n == Len(TokenizedRows)
          skip == Max2(0, call.opts.skip_lines)
          rest == Max2(0, n - skip)
          k == IF call.opts.limit_lines = None THEN rest
               ELSE Min2(rest, call.opts.limit_lines[1])
          kept == [i \in 1..Max2(0, k) |-> TokenizedRows[skip + i]]
      IN  IF call.opts.has_header
          THEN /\ Len(ret.value.rows) = Max2(0, k - 1)
               /\ k >= 1 =>
                    /\ ret.value.headers =
                         [i \in 1..Len(kept[1]) |-> _clean_header(kept[1][i])]
                    /\ ret.value.rows = Tail(kept)
               /\ k < 1 => ret.value.headers = << >>
          ELSE ret.value.rows = kept

\* A call where both skip and limit cut: four rows, one skipped, two of the
\* remaining three kept, so the header and one data row come back.
C7_Witness ==
    /\ ParseDone
    /\ call.opts.has_header
    /\ call.opts.skip_lines = 1
    /\ call.opts.limit_lines = Some(2)
    /\ Len(TokenizedRows) = 4
    /\ Len(ret.value.rows) = 1
    /\ ret.value.headers # << >>

\* The rows that remain after skip and limit.
RemainingRows == SkipLimit(TokenizedRows, call.opts)

\* The label as the header takes it: NUL characters removed, then leading
\* byte-order marks stripped, then surrounding whitespace stripped.
LabelWithoutNul(h) == StrStrip(LStrip(Remove(h, NULCHAR), {BOMCHAR}))

\* The label stripped of byte-order marks and surrounding whitespace only.
LabelStripped(h) == StrStrip(LStrip(h, {BOMCHAR}))

FieldsUpToWidest(headers, rows) ==
    /\ \A r \in 1..Len(rows) : Len(rows[r]) <= Len(headers)
    /\ \E r \in 1..Len(rows) : Len(rows[r]) = Len(headers)
    /\ \A i \in 1..Len(headers) :
           headers[i] = <<"F", "i", "e", "l", "d", SPACE>> \o IntToStr(i)

\* C8 as stated: with has_header the header is the first remaining row,
\* each label stripped of a byte-order mark and surrounding whitespace, and
\* the other remaining rows are the data; without it the header is Field 1
\* .. Field W for the widest remaining row and every remaining row is data;
\* no remaining row gives an empty header list and an empty row list.
C8_HeaderStrippedOfBomAndSpace ==
    ParseDone =>
      IF RemainingRows = << >>
      THEN ret.value = [headers |-> << >>, rows |-> << >>]
      ELSE IF call.opts.has_header
      THEN /\ ret.value.headers =
                [i \in 1..Len(RemainingRows[1]) |->
                   LabelStripped(RemainingRows[1][i])]
           /\ ret.value.rows = Tail(RemainingRows)
      ELSE /\ FieldsUpToWidest(ret.value.headers, RemainingRows)
           /\ ret.value.rows = RemainingRows

\* C8 amended: the same, the label also losing every NUL character before
\* the byte-order marks and the whitespace are stripped.
C8_HeaderDerivation ==
    ParseDone =>
      IF RemainingRows = << >>
      THEN ret.value = [headers |-> << >>, rows |-> << >>]
      ELSE IF call.opts.has_header
      THEN /\ ret.value.headers =
                [i \in 1..Len(RemainingRows[1]) |->
                   LabelWithoutNul(RemainingRows[1][i])]
           /\ ret.value.rows = Tail(RemainingRows)
      ELSE /\ FieldsUpToWidest(ret.value.headers, RemainingRows)
           /\ ret.value.rows = RemainingRows

\* A header label that holds a NUL comes back without it, above a data row.
C8_Witness ==
    /\ ParseDone
    /\ call.opts.has_header
    /\ RemainingRows # << >>
    /\ \E i \in 1..Len(RemainingRows[1]) :
           /\ Contains(RemainingRows[1][i], NULCHAR)
           /\ ret.value.headers[i] = <<"a">>
    /\ Len(ret.value.rows) >= 1

(***************************************************************************)
(* Call-sequence specification: _parse_csv called again and again in one   *)
(* interpreter, csv.excel living on between the calls.  The texts are one  *)
(* that sniffs as comma-delimited, one that sniffs as semicolon-delimited  *)
(* and three the sniffer gives up on.                                      *)
(***************************************************************************)
CallTexts ==
    {<<"a", ",", "b", LF, "1", ",", "2", LF>>,
     <<"a", ";", "b", LF, "1", ";", "2", LF>>,
     <<"a", LF, ";">>,
     <<"a", ";", LF, "a">>,
     <<"a", APOS, ",", "b">>}

CallOptions ==
    {[DefaultParseOptions EXCEPT !.delimiter = d, !.quote_mode = qm,
                                 !.quotechar = qc] :
       d \in {"auto", ",", ";", "pipe"},
       qm \in {"standard", "no_quotes"},
       qc \in {<<QUOTE>>, <<APOS>>}}

InitCalls ==
    /\ call = NoCall
    /\ ret = NoRet
    /\ excel = PristineExcel
    /\ inflight = [p \in Procs |-> Idle]

\* The next call: any text with any options, run to its return.
CallParseCsv ==
    /\ \E t \in CallTexts, o \in CallOptions :
         \E r \in {_parse_csv(t, o, excel)} :
             /\ call' = [fn |-> "_parse_csv", csv_text |-> t, opts |-> o]
             /\ ret' = r.ret
             /\ excel' = r.excel
    /\ UNCHANGED inflight

NextCalls == CallParseCsv

SpecCalls == InitCalls /\ [][NextCalls]_vars

\* C1: what a call returns depends on its text and options alone: it is
\* what the same call returns in an interpreter that has made no call
\* before, whatever calls preceded it.
C1_ResultDependsOnlyOnCall ==
    call.fn = "_parse_csv" =>
      ret = _parse_csv(call.csv_text, call.opts, PristineExcel).ret

(***************************************************************************)
(* Serving specification: the requests of two clients handled by convert   *)
(* on one event loop.  A request is received (the handler runs up to its   *)
(* read of the upload) and later converted (the handler runs on to its     *)
(* response).  Each request in flight carries `overlapped`: whether some   *)
(* other request was in flight during its life; that field is bookkeeping  *)
(* of the specification, the handler keeps no such thing.                  *)
(***************************************************************************)
\* The uploads: "a,b\n1,2\n" and "a\n;" in ASCII.
Uploads == {<<97, 44, 98, 10, 49, 44, 50, 10>>, <<97, 10, 59>>}

Forms ==
    {[DefaultForm(raw) EXCEPT !.format = f, !.delimiter = d,
                              !.quote_mode = qm] :
       raw \in Uploads, f \in {"table", "notebooklm"},
       d \in {"auto", ",", ";"}, qm \in {"standard", "no_quotes"}}

InitServe ==
    /\ call = NoCall
    /\ ret = NoRet
    /\ excel = PristineExcel
    /\ inflight = [p \in Procs |-> Idle]

InFlight(p) == inflight[p].pc = "reading"

\* Lines 461-496: a request arrives and its handler awaits the upload.
Receive(p) ==
    /\ inflight[p].pc \in {"idle", "done"}
    /\ \E form \in Forms :
         inflight' =
           [q \in Procs |->
              IF q = p
              THEN [pc |-> "reading", form |-> form,
                    overlapped |-> \E o \in Procs \ {p} : InFlight(o)]
              ELSE IF InFlight(q)
              THEN [inflight[q] EXCEPT !.overlapped = TRUE]
              ELSE inflight[q]]
    /\ UNCHANGED <<call, ret, excel>>

\* Lines 497-581: the handler resumes and runs to its response.
Convert(p) ==
    /\ InFlight(p)
    /\ \E r \in {ConvertUpload(inflight[p].form, excel)} :
           /\ inflight' =
                [inflight EXCEPT ![p] =
                   [pc |-> "done", form |-> inflight[p].form,
                    overlapped |-> inflight[p].overlapped,
                    response |-> r.ret]]
           /\ excel' = r.excel
    /\ UNCHANGED <<call, ret>>

NextServe == \E p \in Procs : Receive(p) \/ Convert(p)

SpecServe == InitServe /\ [][NextServe]_vars

\* C2: a conversion that was in flight together with another one answers
\* what it answers when it runs alone, in an interpreter that has served no
\* other request, under every interleaving.
C2_ConcurrentOutputAsAlone ==
    \A p \in Procs :
        (inflight[p].pc = "done" /\ inflight[p].overlapped) =>
          inflight[p].response =
            ConvertUpload(inflight[p].form, PristineExcel).ret

(***************************************************************************)
(* Renderer specification: one call of a renderer on a fresh interpreter,  *)
(* the text drawn character by character and every option from the values *)
(* the renderers recognise.                                                *)
(***************************************************************************)
MaxRenderText == 3

RenderTexts == SeqsUpTo({"a", ",", LF}, MaxRenderText)

RenderParseOptions ==
    {[DefaultParseOptions EXCEPT !.delimiter = d, !.has_header = h] :
       d \in {"auto", ",", ";", "tab", "pipe"}, h \in BOOLEAN}

RenderSorts ==
    {None, Some([DefaultSortKey(1) EXCEPT !.type = "numeric",
                                          !.direction = "desc"])}

RenderPositions == {<< >>, <<"2", ",", "1">>}

TableCalls ==
    {[fn |-> "csv_text_to_markdown_table", csv_text |-> t, parse |-> o,
      positions |-> << >>, add_line_numbers |-> n, sort |-> k, eol |-> "lf",
      table_style |-> st] :
       t \in RenderTexts, o \in RenderParseOptions, n \in BOOLEAN,
       k \in RenderSorts, st \in {"markdown", "jira"}}

OutlineCalls ==
    {[fn |-> "csv_text_to_markdown_notebooklm", csv_text |-> t, parse |-> o,
      positions |-> ps, sort |-> k, detail |-> d] :
       t \in RenderTexts, o \in RenderParseOptions, ps \in RenderPositions,
       k \in RenderSorts, d \in {"full", "minimal"}}

InitRender ==
    /\ call \in TableCalls \cup OutlineCalls
    /\ ret = NoRet
    /\ excel = PristineExcel
    /\ inflight = [p \in Procs |-> Idle]

RenderTable ==
    /\ call.fn = "csv_text_to_markdown_table"
    /\ ret = NoRet
    /\ \E r \in {csv_text_to_markdown_table(
                      call.csv_text, << >>, call.parse, call.positions,
                      call.add_line_numbers, call.sort, call.eol,
                      call.table_style, excel)} :
         ret' = r.ret /\ excel' = r.excel
    /\ UNCHANGED <<call, inflight>>

RenderOutline ==
    /\ call.fn = "csv_text_to_markdown_notebooklm"
    /\ ret = NoRet
    /\ \E r \in {csv_text_to_markdown_notebooklm(
                      call.csv_text, << >>, call.detail, None, call.parse,
                      call.positions, call.sort, excel)} :
         ret' = r.ret /\ excel' = r.excel
    /\ UNCHANGED <<call, inflight>>

NextRender == RenderTable \/ RenderOutline

SpecRender == InitRender /\ [][NextRender]_vars

\* C6: for every text and every recognised configuration both renderers
\* return a string; nothing is raised (csv.Error, the one error they may
\* raise, does not occur for these texts).
C6_RenderersReturnAString ==
    (call.fn \in {"csv_text_to_markdown_table",
                  "csv_text_to_markdown_notebooklm"} /\ ret # NoRet)
      => ret.kind = "ok"

(***************************************************************************)
(* Projector specification: project(headers, rows, positions), which is    *)
(* _apply_positions(headers, rows, _parse_positions(positions)) as both    *)
(* renderers call it.  The positions string is up to MaxTokens tokens      *)
(* separated by commas.                                                    *)
(***************************************************************************)
MaxTokens == 2

PositionTokens ==
    {<<"2">>, <<"1">>, <<SPACE, "3", SPACE>>, <<"x">>, <<"0">>, <<"9">>,
     <<SUPER2>>, << >>}

PositionStrings ==
    {Join(ts, <<",">>) : ts \in SeqsUpTo(PositionTokens, MaxTokens)}

ProjectTables ==
    {[headers |-> <<<<"A">>, <<"B">>, <<"C">>>>,
      rows |-> <<<<<<"1">>, <<"2">>, <<"3">>>>, <<<<"4">>>>>>],
     [headers |-> <<<<"A">>, <<"B">>>>,
      rows |-> <<<<<<"1">>, <<"2">>, <<"3">>>>, << >>>>],
     [headers |-> <<<<"A">>>>, rows |-> << >>],
     [headers |-> << >>, rows |-> <<<<<<"1">>>>>>]}

InitProject ==
    /\ call \in {[fn |-> "project", headers |-> t.headers, rows |-> t.rows,
                  positions |-> ps] :
                   t \in ProjectTables, ps \in PositionStrings}
    /\ ret = NoRet
    /\ excel = PristineExcel
    /\ inflight = [p \in Procs |-> Idle]

Project ==
    /\ call.fn = "project"
    /\ ret = NoRet
    /\ LET pos == _parse_positions(call.positions)
       IN  ret' = IF pos.kind = "raise" THEN pos
                  ELSE Ok(_apply_positions(call.headers, call.rows, pos.value))
    /\ UNCHANGED <<call, excel, inflight>>

NextProject == Project

SpecProject == InitProject /\ [][NextProject]_vars

\* The indices the positions string names: its comma-separated tokens,
\* trimmed; tokens that are not decimal numbers and numbers outside 1..n
\* are discarded.
RECURSIVE StatedIndices(_, _)
StatedIndices(tokens, n) ==
    IF tokens = << >> THEN << >>
    ELSE LET t == StrStrip(Head(tokens))
             rest == StatedIndices(Tail(tokens), n)
         IN  IF t # << >> /\ AllIn(t, DecimalDigits) /\ DigitsToInt(t) \in 1..n
             THEN <<DigitsToInt(t)>> \o rest
             ELSE rest

\* C9: project discards the tokens that are not numbers and the indices
\* outside 1..len(headers); with no valid index left it returns headers and
\* rows unchanged, otherwise the headers at the valid indices in the given
\* order and every row re-projected to the same indices, a missing cell
\* becoming the empty string.
C9_ProjectAsStated ==
    (call.fn = "project" /\ ret # NoRet) =>
      LET idxs == StatedIndices(SplitOn(call.positions, ","), Len(call.headers))
      IN  ret = Ok(IF idxs = << >>
                   THEN [headers |-> call.headers, rows |-> call.rows]
                   ELSE [headers |-> [k \in 1..Len(idxs) |-> call.headers[idxs[k]]],
                         rows |-> [r \in 1..Len(call.rows) |->
                                     [k \in 1..Len(idxs) |->
                                        IF idxs[k] <= Len(call.rows[r])
                                        THEN call.rows[r][idxs[k]]
                                        ELSE << >>]]])

(***************************************************************************)
(* Sorter specification: one call of _apply_sort on up to MaxSortRows      *)
(* one-cell rows (or rows without a cell).                                 *)
(***************************************************************************)
MaxSortRows == 3

SortCells ==
    {<<"1", "0">>, <<"2">>, <<"b", "a", "d">>, <<"n", "a", "n">>,
     <<"1", ",", "5">>, << >>}

SortRows == {<<c>> : c \in SortCells} \cup {<< >>}

SortKeys ==
    {[DefaultSortKey(1) EXCEPT !.type = ty, !.direction = dir] :
       ty \in {"numeric", "string"}, dir \in {"asc", "desc"}}

InitSort ==
    /\ call \in {[fn |-> "_apply_sort", rows |-> rs, key |-> k,
                  headers_len |-> 1] :
                   rs \in SeqsUpTo(SortRows, MaxSortRows), k \in SortKeys}
    /\ ret = NoRet
    /\ excel = PristineExcel
    /\ inflight = [p \in Procs |-> Idle]

ApplySort ==
    /\ call.fn = "_apply_sort"
    /\ ret = NoRet
    /\ ret' = Ok(_apply_sort(call.rows, call.key, call.headers_len))
    /\ UNCHANGED <<call, excel, inflight>>

NextSort == ApplySort

SpecSort == InitSort /\ [][NextSort]_vars

\* The float the target cell of a row parses to, comma read as dot.
ParsedCell(row) ==
    ParseFloat(ReplaceChar(StrStrip(IF row = << >> THEN << >> ELSE row[1]),
                           ",", "."))

\* C10: numeric ascending output has every row whose value does not parse
\* before every row whose value parses to a finite number; descending
\* output has them after.
C10_UnparsableFirst ==
    (call.fn = "_apply_sort" /\ ret # NoRet /\ call.key.type = "numeric") =>
      \A i, j \in 1..Len(ret.value) :
          (ParsedCell(ret.value[i]) = NotAFloat
             /\ ParsedCell(ret.value[j]).cls = "num")
            => IF call.key.direction = "asc" THEN i < j ELSE i > j

(***************************************************************************)
(* Table specification: one call of csv_text_to_markdown_table on a fresh  *)
(* interpreter.  The text is the CSV of a small table, every cell quoted   *)
(* (quotes doubled), so that cells can hold pipes, backslashes, NUL and    *)
(* line breaks; the delimiter is given.  The first column holds digits,    *)
(* so that sorting on it reorders rows.                                    *)
(***************************************************************************)
\* One CSV cell, quoted.
QuotedCell(c) ==
    <<QUOTE>> \o Join([k \in 1..Len(c) |->
                         IF c[k] = QUOTE THEN <<QUOTE, QUOTE>> ELSE <<c[k]>>],
                      << >>) \o <<QUOTE>>

\* The CSV text of a sequence of records, one per line.
QuotedCsv(records) ==
    Join([i \in 1..Len(records) |->
            Join([k \in 1..Len(records[i]) |-> QuotedCell(records[i][k])], <<",">>)
              \o <<LF>>],
         << >>)

MaxGridRows == 2

GridCells ==
    {<< >>, <<"|">>, <<BACKSLASH, "|">>, <<"a", LF, "b">>,
     <<"a", CR, LF, "b">>, <<"a", CR>>, <<NULCHAR, "a">>}

GridHeaders == {<<<<"n">>, h>> : h \in {<<"|">>, <<"a", LF, "b">>}}

GridRows ==
    {<<n, c>> : n \in {<<"1">>, <<"2">>}, c \in GridCells}
      \cup {<<n>> : n \in {<<"1">>, <<"2">>}}

GridSorts ==
    {None, Some([DefaultSortKey(1) EXCEPT !.type = "numeric",
                                          !.direction = "desc"])}

\* The tables, and the empty text.
GridTexts ==
    {QuotedCsv(<<h>> \o rs) :
       h \in GridHeaders, rs \in SeqsUpTo(GridRows, MaxGridRows)} \cup {<< >>}

GridCalls ==
    {[fn |-> "csv_text_to_markdown_table",
      csv_text |-> t,
      parse |-> [DefaultParseOptions EXCEPT !.delimiter = ","],
      positions |-> ps, add_line_numbers |-> n, sort |-> k, eol |-> e,
      table_style |-> st] :
       t \in GridTexts,
       ps \in {<< >>, <<"2", ",", "1">>}, n \in BOOLEAN, k \in GridSorts,
       e \in {"lf", "crlf"}, st \in {"markdown", "jira"}}

InitTable ==
    /\ call \in GridCalls
    /\ ret = NoRet
    /\ excel = PristineExcel
    /\ inflight = [p \in Procs |-> Idle]

SpecTable == InitTable /\ [][RenderTable]_vars

\* What a reader of the output sees: its lines, and the cells of a line.
RECURSIVE SplitAt(_, _)
SplitAt(s, sep) ==
    IF Len(s) < Len(sep) THEN <<s>>
    ELSE IF \E k \in 1..(Len(s) - Len(sep) + 1) :
               SubSeq(s, k, k + Len(sep) - 1) = sep
    THEN LET i == CHOOSE k \in 1..(Len(s) - Len(sep) + 1) :
                      /\ SubSeq(s, k, k + Len(sep) - 1) = sep
                      /\ \A j \in 1..(k - 1) : SubSeq(s, j, j + Len(sep) - 1) # sep
         IN  <<SubSeq(s, 1, i - 1)>> \o SplitAt(Drop(s, i + Len(sep) - 1), sep)
    ELSE <<s>>

TableDone == call.fn = "csv_text_to_markdown_table" /\ ret # NoRet

LineEnding == IF call.eol = "crlf" THEN <<CR, LF>> ELSE <<LF>>

\* The pieces the end-of-line sequence cuts the output into; the last piece
\* is what follows the last end of line.
OutputPieces == SplitAt(ret.value, LineEnding)

OutputLines == SubSeq(OutputPieces, 1, Len(OutputPieces) - 1)

\* The cells of a single-pipe row "| c1 | c2 |".
CellsOfRow(line) ==
    SplitAt(SubSeq(line, 3, Len(line) - 2), <<SPACE, "|", SPACE>>)

\* The cells of a header line in the style of the call.
CellsOfHeader(line) ==
    IF call.table_style = "jira"
    THEN SplitAt(SubSeq(line, 4, Len(line) - 3), <<SPACE, "|", "|", SPACE>>)
    ELSE CellsOfRow(line)

\* The lines before the first data row.
HeadLines == IF call.table_style = "jira" THEN 1 ELSE 2

\* The table after parsing, projection and sorting, from the functions
\* themselves.
ParsedOfCall == _parse_csv(call.csv_text, call.parse, PristineExcel).ret.value

ProjectedOfCall ==
    _apply_positions(ParsedOfCall.headers, ParsedOfCall.rows,
                     _parse_positions(call.positions).value)

FinalRows ==
    LET t == ProjectedOfCall
    IN  IF call.sort # None /\ t.headers # << >>
        THEN _apply_sort(t.rows, call.sort[1], Len(t.headers))
        ELSE t.rows

\* C11: with line numbering the header starts with the cell "#", and the
\* i-th emitted data row is the i-th row of the projected and sorted table
\* with the cell i before its own cells.
C11_NumberedInFinalOrder ==
    (TableDone /\ call.add_line_numbers) =>
      /\ ret.kind = "ok"
      /\ LET lines == OutputLines
             final == FinalRows
         IN  /\ Len(lines) = HeadLines + Len(final)
             /\ Head(CellsOfHeader(lines[1])) = <<"#">>
             /\ \A i \in 1..Len(final) :
                    CellsOfRow(lines[HeadLines + i])
                      = <<IntToStr(i)>> \o EscapedCells(final[i])

\* A numbered table whose rows sorting has reordered.
C11_Witness ==
    /\ TableDone /\ call.add_line_numbers /\ ret.kind = "ok"
    /\ call.sort # None
    /\ LET final == FinalRows
           given == ProjectedOfCall.rows
       IN  /\ Len(final) = 2
           /\ final # given
           /\ final[2] = given[1]
           /\ Head(CellsOfRow(OutputLines[HeadLines + 2])) = <<"2">>

\* The escaping as the claim states it, character by character: NUL
\* dropped, a pipe preceded by a backslash, and CRLF, LF and CR each turned
\* into one space.
RECURSIVE StatedEscape(_)
StatedEscape(v) ==
    IF v = << >> THEN << >>
    ELSE IF v[1] = NULCHAR THEN StatedEscape(Tail(v))
    ELSE IF v[1] = "|" THEN <<BACKSLASH, "|">> \o StatedEscape(Tail(v))
    ELSE IF v[1] = CR /\ Len(v) >= 2 /\ v[2] = LF
    THEN <<SPACE>> \o StatedEscape(Drop(v, 2))
    ELSE IF v[1] \in {CR, LF} THEN <<SPACE>> \o StatedEscape(Tail(v))
    ELSE <<v[1]>> \o StatedEscape(Tail(v))

StatedEscapes(row) == [k \in 1..Len(row) |-> StatedEscape(row[k])]

\* The pipes of a line that the markup reads as pipes: a backslash escapes
\* the character after it, a backslash included.
RECURSIVE UnescapedPipes(_)
UnescapedPipes(s) ==
    IF s = << >> THEN 0
    ELSE IF s[1] = BACKSLASH /\ Len(s) >= 2 THEN UnescapedPipes(Drop(s, 2))
    ELSE (IF s[1] = "|" THEN 1 ELSE 0) + UnescapedPipes(Tail(s))

\* The header of the final table, with the "#" cell when rows are numbered,
\* and its rows with their numbers.
FinalHeader ==
    (IF call.add_line_numbers THEN <<<<"#">>>> ELSE << >>) \o ProjectedOfCall.headers

NumberedRows ==
    LET final == FinalRows
    IN  [i \in 1..Len(final) |->
           (IF call.add_line_numbers THEN <<IntToStr(i)>> ELSE << >>) \o final[i]]

\* The pipes that delimit the n cells of a row.
DelimitingPipes(n) == IF n = 0 THEN 2 ELSE n + 1

\* C12, first part: every emitted header and data cell is the source cell
\* with NUL removed, pipes preceded by a backslash and line breaks turned
\* into one space each; the table has one line per data row.
C12_CellsTransformed ==
    TableDone =>
      /\ ret.kind = "ok"
      /\ LET lines == OutputLines
             rows == NumberedRows
         IN  /\ Len(lines) = HeadLines + Len(rows)
             /\ FinalHeader # << >>
                  => CellsOfHeader(lines[1]) = StatedEscapes(FinalHeader)
             /\ \A i \in 1..Len(rows) :
                    rows[i] # << >>
                      => CellsOfRow(lines[HeadLines + i]) = StatedEscapes(rows[i])

\* C12: the cells are so transformed, and hence no line of the table holds
\* a NUL or a pipe the markup reads as a delimiter other than the pipes
\* that delimit its cells, and every data row is one line.
C12_NoUnescapedPipe ==
    TableDone =>
      /\ C12_CellsTransformed
      /\ LET lines == OutputLines
             rows == NumberedRows
         IN  /\ \A i \in 1..Len(lines) : ~Contains(lines[i], NULCHAR)
             /\ UnescapedPipes(lines[1])
                  = (IF call.table_style = "jira" THEN 2 ELSE 1)
                      * DelimitingPipes(Len(FinalHeader))
             /\ \A i \in 1..Len(rows) :
                    UnescapedPipes(lines[HeadLines + i])
                      = DelimitingPipes(Len(rows[i]))

\* The separator row of n segments.
RECURSIVE Segments(_)
Segments(n) == IF n = 0 THEN << >> ELSE <<"-", "-", "-", "|">> \o Segments(n - 1)

StatedSeparator(n) == IF n = 0 THEN <<"|", "|">> ELSE <<"|">> \o Segments(n)

Framed(line, open, close) ==
    /\ Len(line) >= Len(open) + Len(close)
    /\ StartsWith(line, open)
    /\ EndsWith(line, close)

\* C13: the output is lines that each end with the end-of-line sequence of
\* the call; in Markdown style a header row, one separator row with one
\* `---` segment per header cell (the `#` cell included), and a row per
\* data row, each between a leading and a trailing pipe; in Jira style a
\* header row between double pipes and a row per data row, no separator.
C13_TableStructure ==
    TableDone =>
      /\ ret.kind = "ok"
      /\ LET pieces == OutputPieces
             lines == OutputLines
             n == Len(FinalHeader)
             rows == NumberedRows
         IN  /\ pieces[Len(pieces)] = << >>
             /\ \A i \in 1..Len(lines) :
                    ~Contains(lines[i], LF) /\ ~Contains(lines[i], CR)
             /\ Len(lines) = HeadLines + Len(rows)
             /\ n > 0 => Len(CellsOfHeader(lines[1])) = n
             /\ IF call.table_style = "jira"
                THEN Framed(lines[1], <<"|", "|", SPACE>>, <<SPACE, "|", "|">>)
                ELSE /\ Framed(lines[1], <<"|", SPACE>>, <<SPACE, "|">>)
                     /\ lines[2] = StatedSeparator(n)
             /\ \A i \in 1..Len(rows) :
                    /\ Framed(lines[HeadLines + i], <<"|", SPACE>>, <<SPACE, "|">>)
                    /\ lines[HeadLines + i] # StatedSeparator(n)
                    /\ rows[i] # << >>
                         => Len(CellsOfRow(lines[HeadLines + i])) = Len(rows[i])

\* A numbered Markdown table of two rows with CRLF line ends: three header
\* cells, three segments.
C13_Witness ==
    /\ TableDone /\ ret.kind = "ok"
    /\ call.table_style = "markdown" /\ call.eol = "crlf"
    /\ call.add_line_numbers
    /\ Len(OutputLines) = 4
    /\ OutputLines[2] = <<"|", "-", "-", "-", "|", "-", "-", "-", "|", "-", "-", "-", "|">>
    /\ EndsWith(ret.value, <<SPACE, "|", CR, LF>>)

(***************************************************************************)
(* Outline specification: one call of csv_text_to_markdown_notebooklm on a *)
(* fresh interpreter, on the CSV of a small table.  The header labels are  *)
(* a keyword column (in several spellings), a column of the allowlist and  *)
(* a column outside it, alone, in pairs (repeated labels included) and in  *)
(* some longer rows; one header has nine columns and one has none (a blank *)
(* first line).  The values are empty, blank or a letter; a row has a cell *)
(* per header cell, or one cell, or a cell more than the header.           *)
(***************************************************************************)
MaxOutlineRows == 2

Keyword == <<"K", "e", "y", "w", "o", "r", "d">>
Volume == <<"V", "o", "l", "u", "m", "e">>

OutlineLabels == {Keyword, Volume, <<"x">>}

NineColumns ==
    <<<<"a">>, <<"b">>, <<"c">>, <<"d">>, <<"e">>, <<"f">>, <<"g">>, <<"h">>,
      <<"i">>>>

OutlineHeaders ==
    {<<h>> : h \in OutlineLabels}
      \cup {<<h, g>> : h \in OutlineLabels, g \in OutlineLabels}
      \cup {<<<<"x">>, <<"K", "E", "Y", "W", "O", "R", "D">>, Volume>>,
            <<<<"x">>, <<"S", "E", "R", "P", SPACE, "f", "e", "a", "t", "u", "r",
                        "e", "s">>>>,
            <<<<"x">>, <<SPACE, BOMCHAR>> \o Keyword>>,
            NineColumns,
            << >>}

OutlineValues == {<< >>, <<SPACE>>, <<"a">>}

OutlineRows(h) ==
    IF Len(h) = 9
    THEN {[j \in 1..9 |-> IF j = 9 THEN <<"a">> ELSE << >>],
          [j \in 1..9 |-> <<"a">>]}
    ELSE [1..Max2(Len(h), 1) -> OutlineValues]
           \cup {<<<<"a">>>>, [j \in 1..(Len(h) + 1) |-> <<"a">>]}

OutlineTexts ==
    UNION {{QuotedCsv(<<h>> \o rs) :
              rs \in SeqsUpTo(OutlineRows(h), MaxOutlineRows)} :
             h \in OutlineHeaders}

OutlineSorts == {None, Some([DefaultSortKey(1) EXCEPT !.direction = "desc"])}

InitOutline ==
    /\ call \in {[fn |-> "csv_text_to_markdown_notebooklm", csv_text |-> t,
                  parse |-> [DefaultParseOptions EXCEPT !.delimiter = ","],
                  positions |-> << >>, sort |-> k, detail |-> d] :
                   t \in OutlineTexts, k \in OutlineSorts,
                   d \in {"full", "minimal"}}
    /\ ret = NoRet
    /\ excel = PristineExcel
    /\ inflight = [p \in Procs |-> Idle]

SpecOutline == InitOutline /\ [][RenderOutline]_vars

OutlineDone == call.fn = "csv_text_to_markdown_notebooklm" /\ ret # NoRet

\* What a reader of the outline sees: after the seven lines of the opening
\* block, the records, each a heading line `### text`, its bullet lines and
\* a blank line.
HeadingMark == <<"#", "#", "#", SPACE>>

BulletMark == <<"-", SPACE, "*", "*">>

RECURSIVE BulletRun(_, _)
BulletRun(lines, k) ==
    IF k <= Len(lines) /\ StartsWith(lines[k], BulletMark)
    THEN 1 + BulletRun(lines, k + 1) ELSE 0

RECURSIVE RecordsFrom(_, _)
RecordsFrom(lines, k) ==
    IF k > Len(lines) \/ ~StartsWith(lines[k], HeadingMark) THEN << >>
    ELSE LET n == BulletRun(lines, k + 1)
         IN  <<[heading |-> Drop(lines[k], 4),
                bullets |-> SubSeq(lines, k + 1, k + n)]>>
               \o RecordsFrom(lines, k + n + 2)

ObservedRecords == RecordsFrom(SplitOn(ret.value, LF), 8)

\* The cells of a row under n header cells: missing cells empty, cells
\* beyond the header dropped.
ValuesOf(row, n) == [j \in 1..n |-> IF j <= Len(row) THEN row[j] ELSE << >>]

\* A value as it is shown: escaped as a table cell, then trimmed.
Shown(v) == StrStrip(_escape_md_cell(v))

\* The columns whose header equals `keyword` when case is ignored.
KeywordColumns(headers) ==
    {j \in 1..Len(headers) : LowerSeq(headers[j]) = KeywordKey}

\* The columns a record's heading may come from: a keyword column, or the
\* first column when there is none.
HeadingColumns(headers) ==
    IF KeywordColumns(headers) = {} THEN {1} ELSE KeywordColumns(headers)

\* The bullets of the columns from j on that are in cols, are not the
\* heading column k, and have a value left after trimming.
RECURSIVE StatedBullets(_, _, _, _, _)
StatedBullets(headers, values, cols, k, j) ==
    IF j > Len(headers) THEN << >>
    ELSE (IF j \in cols /\ j # k /\ Shown(values[j]) # << >>
          THEN <<BulletMark \o headers[j] \o <<"*", "*", ":", SPACE>>
                   \o Shown(values[j])>>
          ELSE << >>)
         \o StatedBullets(headers, values, cols, k, j + 1)

\* C14: in full detail every record has, in column order, one bullet
\* `- **Header**: value` for every column other than its heading column
\* whose value is not empty after trimming, with that column's value, and
\* no other bullet.
C14_FullBullets ==
    (OutlineDone /\ call.detail = "full" /\ ret.kind = "ok") =>
      LET obs == ObservedRecords
          headers == ProjectedOfCall.headers
          final == FinalRows
      IN  /\ Len(obs) = Len(final)
          /\ \A i \in 1..Len(final) :
               \E k \in HeadingColumns(headers) :
                   obs[i].bullets
                     = StatedBullets(headers, ValuesOf(final[i], Len(headers)),
                                     1..Len(headers), k, 1)

\* The heading of record i for heading column k.
StatedHeading(values, k, i) ==
    IF Shown(values[k]) = << >> THEN RowLabel \o IntToStr(i)
    ELSE Shown(values[k])

\* C15: the outline has one record per row of the projected and sorted
\* table, in that order; the heading of record i is the escaped, trimmed
\* value of a column whose header equals `keyword` when case is ignored, or
\* of the first column when no header does, and the row label with i when
\* that value is empty after trimming.
C15_RecordHeadings ==
    OutlineDone =>
      /\ ret.kind = "ok"
      /\ LET obs == ObservedRecords
             headers == ProjectedOfCall.headers
             final == FinalRows
         IN  /\ Len(obs) = Len(final)
             /\ \A i \in 1..Len(final) :
                  \E k \in HeadingColumns(headers) :
                      obs[i].heading
                        = StatedHeading(ValuesOf(final[i], Len(headers)), k, i)

\* The columns whose header equals an entry of the allowlist when case is
\* ignored.
MatchedColumns(headers) ==
    {j \in 1..Len(headers) :
       \E f \in 1..Len(NOTEBOOKLM_MIN_FIELDS) :
           LowerSeq(headers[j]) = LowerSeq(NOTEBOOKLM_MIN_FIELDS[f])}

\* The columns the bullets of a record with heading column k are drawn
\* from in minimal detail: the matched ones, or the first eight when none
\* matches or the heading column is the only match.
StatedColumns(headers, k) ==
    IF MatchedColumns(headers) \subseteq {k}
    THEN 1..Min2(Len(headers), 8)
    ELSE MatchedColumns(headers)

\* C19: in minimal detail the bullets of every record are those of the
\* matched columns, or of the first eight columns when no column matches
\* or only the heading column does (the heading column itself shown or
\* not); and a record with a non-empty value in a column other than its
\* heading column has at least one bullet.
C19_MinimalBullets ==
    (OutlineDone /\ call.detail = "minimal" /\ ret.kind = "ok") =>
      LET obs == ObservedRecords
          headers == ProjectedOfCall.headers
          final == FinalRows
      IN  /\ Len(obs) = Len(final)
          /\ \A i \in 1..Len(final) :
               \E k \in HeadingColumns(headers) :
                 LET values == ValuesOf(final[i], Len(headers))
                 IN  /\ \E shown \in {k, 0} :
                           obs[i].bullets
                             = StatedBullets(headers, values,
                                             StatedColumns(headers, k), shown, 1)
                     /\ (\E j \in 1..Len(headers) :
                             j # k /\ Shown(values[j]) # << >>)
                          => obs[i].bullets # << >>

(***************************************************************************)
(* Tiers specification: _parse_csv on texts that hold fields longer than   *)
(* csv.field_size_limit(), the one csv.Error the reader of the whole text  *)
(* can raise once line ends are normalised.                                *)
(***************************************************************************)
MaxTierText == 5

TierChars == {RUN, "a", ",", ";", LF, QUOTE}

TierTexts == SeqsUpTo(TierChars, MaxTierText)

TierOptions ==
    {[DefaultParseOptions EXCEPT !.delimiter = dm[1], !.has_header = FALSE,
                                 !.quote_mode = dm[2]] :
       dm \in {<<",", "standard">>, <<";", "standard">>, <<",", "no_quotes">>}}

TierCalls ==
    {[fn |-> "_parse_csv", csv_text |-> t, opts |-> o] :
       t \in TierTexts, o \in TierOptions}

InitTiers ==
    /\ call \in TierCalls
    /\ ret = NoRet
    /\ excel = PristineExcel
    /\ inflight = [p \in Procs |-> Idle]

SpecTiers == InitTiers /\ [][ParseCsv]_vars

\* The dialect of a call with an explicit one-character delimiter.
StatedDialect(opts) ==
    [PristineExcel EXCEPT
       !.delimiter = opts.delimiter,
       !.quoting = IF opts.quote_mode = "no_quotes" THEN "QUOTE_NONE"
                   ELSE "QUOTE_MINIMAL"]

\* The text of the call with every line end a line feed.
TierText == NormalizeNewlines(call.csv_text)

\* Strategy 1: the reader over the whole text, line feeds kept.
WholeText == CsvReader(KeepEndsLines(TierText), StatedDialect(call.opts))

\* Strategy 2: the reader over the physical lines, line feeds dropped.
PhysicalLines == CsvReader(SplitLines(TierText), StatedDialect(call.opts))

\* The non-empty lines of the text.
TierLines ==
    LET all == SplitAt(TierText, <<LF>>)
    IN  SelectSeq(all, LAMBDA ln : ln # << >>)

\* The candidate delimiters of strategy 3.
NaiveCandidates == {call.opts.delimiter, ";", ",", TAB, "|"}

\* The candidates no other candidate is more frequent than in the first
\* non-empty line (every candidate when there is no line).
MostFrequent ==
    LET first == IF TierLines = << >> THEN << >> ELSE TierLines[1]
        n(d) == Cardinality({i \in 1..Len(first) : first[i] = d})
    IN  {d \in NaiveCandidates : \A e \in NaiveCandidates : n(e) <= n(d)}

\* Strategy 3: every non-empty line split on d.
NaiveSplit(d) == [k \in 1..Len(TierLines) |-> SplitAt(TierLines[k], <<d>>)]

\* C16: every parse returns a table, and its rows are those of the first
\* strategy that succeeds: of the reader over the whole text when it raises
\* no csv.Error; else of the reader over the physical lines when that one
\* raises none; else every non-empty line split on a candidate delimiter
\* most frequent in the first non-empty line.
C16_FirstSuccessfulTier ==
    (call.fn = "_parse_csv" /\ ret # NoRet) =>
      /\ ret.kind = "ok"
      /\ LET s1 == WholeText
         IN  IF ~s1.err THEN ret.value.rows = s1.rows
             ELSE LET s2 == PhysicalLines
                  IN  IF ~s2.err THEN ret.value.rows = s2.rows
                      ELSE \E d \in MostFrequent :
                             ret.value.rows = NaiveSplit(d)

\* A text on which both readers raise csv.Error and the naive split, on a
\* delimiter other than the dialect's, has produced the rows.
C16_Witness ==
    /\ call.fn = "_parse_csv" /\ ret # NoRet /\ ret.kind = "ok"
    /\ WholeText.err /\ PhysicalLines.err
    /\ call.opts.delimiter \notin MostFrequent
    /\ Len(ret.value.rows) = 2
    /\ \E i \in 1..2 : Len(ret.value.rows[i]) >= 2

(***************************************************************************)
(* The sort as stated: the target column, the key of a row, the order of   *)
(* keys, read off the call and its result.                                 *)
(***************************************************************************)
SortDone == call.fn = "_apply_sort" /\ ret # NoRet

\* The target column, counted from 1: the field index clamped into
\* 1..headers_len (column 1 when there is no header).
StatedTarget ==
    IF call.key.field_1based < 1 \/ call.headers_len < 1 THEN 1
    ELSE IF call.key.field_1based > call.headers_len THEN call.headers_len
    ELSE call.key.field_1based

\* The cell of a row at the target column, the empty string when the row
\* has no such cell.
StatedCell(row) ==
    IF StatedTarget <= Len(row) THEN row[StatedTarget] ELSE << >>

\* The value a numeric sort orders a row by: the number its target cell
\* reads as (stripped, comma as dot), minus infinity when it reads as none.
StatedNumber(row) ==
    LET f == ParseFloat(ReplaceChar(StrStrip(StatedCell(row)), ",", "."))
    IN  IF f = NotAFloat THEN Inf(0 - 1) ELSE f

\* The text a string sort orders a row by.
StatedWord(row) ==
    IF call.key.ignore_case THEN LowerSeq(StatedCell(row)) ELSE StatedCell(row)

\* The key of row a is less than the key of row b.
KeyBefore(a, b) ==
    IF call.key.type = "numeric" THEN FloatLt(StatedNumber(a), StatedNumber(b))
    ELSE StrLt(StatedWord(a), StatedWord(b))

\* The keys of rows a and b are equal.
KeySame(a, b) ==
    IF call.key.type = "numeric"
    THEN /\ StatedNumber(a) # NaN /\ StatedNumber(b) # NaN
         /\ ~FloatLt(StatedNumber(a), StatedNumber(b))
         /\ ~FloatLt(StatedNumber(b), StatedNumber(a))
    ELSE StatedWord(a) = StatedWord(b)

\* The ways of placing n input rows at n output positions.
Placings(n) ==
    {p \in [1..n -> 1..n] : \A i, j \in 1..n : p[i] = p[j] => i = j}

\* The result holds the input rows, output position i the input row p[i].
PlacedBy(p) ==
    \A i \in 1..Len(call.rows) : ret.value[i] = call.rows[p[i]]

\* No later row of the result has a key that belongs before an earlier
\* row's: before is less for asc, greater for desc.
OrderedByKey ==
    \A i, j \in 1..Len(ret.value) :
        i < j => IF call.key.direction = "desc"
                 THEN ~KeyBefore(ret.value[i], ret.value[j])
                 ELSE ~KeyBefore(ret.value[j], ret.value[i])

\* Rows of equal keys keep the order they had in the input.
TiesKeepInputOrder(p) ==
    \A i, j \in 1..Len(ret.value) :
        (i < j /\ KeySame(ret.value[i], ret.value[j])) => p[i] < p[j]

\* The result is a permutation of the input.
IsPermutation ==
    /\ Len(ret.value) = Len(call.rows)
    /\ \E p \in Placings(Len(call.rows)) : PlacedBy(p)

\* The result is a stable permutation of the input.
IsStable ==
    /\ Len(ret.value) = Len(call.rows)
    /\ \E p \in Placings(Len(call.rows)) : PlacedBy(p) /\ TiesKeepInputOrder(p)

\* C17: the result of a sort is a permutation of the input rows, ordered by
\* the key (no row after a row whose key is greater for asc, less for
\* desc), and rows of equal keys are in the order of the input, in both
\* directions.
C17_StableOrderedPermutation ==
    SortDone => (IsStable /\ OrderedByKey)

(***************************************************************************)
(* Field specification: _apply_sort with field indices below, inside and   *)
(* above the header count on rows shorter than, as long as and longer than *)
(* the target column; and the two conversion functions with a sort key on  *)
(* texts whose header list is empty (a blank first line) or not.           *)
(***************************************************************************)
MaxFieldRows == 3

MaxFieldCells == 2

MaxFieldHeaders == 3

FieldIndexes == {0 - 1, 0, 1, 2, 3, 5}

FieldRows == SeqsUpTo({<<"1">>, <<"2">>}, MaxFieldCells)

FieldKeys ==
    {[DefaultSortKey(f) EXCEPT !.type = ty, !.direction = dir] :
       f \in FieldIndexes, ty \in {"string", "numeric"}, dir \in {"asc", "desc"}}

FieldSortCalls ==
    {[fn |-> "_apply_sort", rows |-> rs, key |-> k, headers_len |-> n] :
       rs \in SeqsUpTo(FieldRows, MaxFieldRows), k \in FieldKeys,
       n \in 1..MaxFieldHeaders}

\* A blank first line leaves the header list empty; the last text has a
\* header.
FieldTexts ==
    {<<LF, "b", LF, "a", LF>>, <<LF, "a", LF, "b", LF>>, <<LF>>, << >>,
     <<"h", LF, "b", LF, "a", LF>>}

FieldTableCalls ==
    {[fn |-> "csv_text_to_markdown_table", csv_text |-> t,
      parse |-> [DefaultParseOptions EXCEPT !.delimiter = ","],
      positions |-> << >>, add_line_numbers |-> n, sort |-> Some(k),
      eol |-> "lf", table_style |-> "markdown"] :
       t \in FieldTexts, n \in BOOLEAN, k \in FieldKeys}

FieldOutlineCalls ==
    {[fn |-> "csv_text_to_markdown_notebooklm", csv_text |-> t,
      parse |-> [DefaultParseOptions EXCEPT !.delimiter = ","],
      positions |-> << >>, sort |-> Some(k), detail |-> d] :
       t \in FieldTexts, k \in FieldKeys, d \in {"full", "minimal"}}

InitField ==
    /\ call \in FieldSortCalls \cup FieldTableCalls \cup FieldOutlineCalls
    /\ ret = NoRet
    /\ excel = PristineExcel
    /\ inflight = [p \in Procs |-> Idle]

NextField == ApplySort \/ RenderTable \/ RenderOutline

SpecField == InitField /\ [][NextField]_vars

\* What the conversion call gives when it is made without a sort key.
WithoutSort ==
    IF call.fn = "csv_text_to_markdown_table"
    THEN csv_text_to_markdown_table(
             call.csv_text, << >>, call.parse, call.positions,
             call.add_line_numbers, None, call.eol, call.table_style,
             PristineExcel).ret
    ELSE csv_text_to_markdown_notebooklm(
             call.csv_text, << >>, call.detail, None, call.parse,
             call.positions, None, PristineExcel).ret

ConversionDone ==
    /\ call.fn \in {"csv_text_to_markdown_table",
                    "csv_text_to_markdown_notebooklm"}
    /\ ret # NoRet

\* C18: a sort returns for every field index, its result is the input
\* stably ordered by the cell at the target column, the field index
\* clamped into 1..header count, a row without that cell ordered as the
\* empty string; and a conversion whose header list is empty gives what it
\* gives without a sort key.
C18_FieldIndexClamped ==
    /\ SortDone => (ret.kind = "ok" /\ IsStable /\ OrderedByKey)
    /\ (ConversionDone /\ ProjectedOfCall.headers = << >>) => ret = WithoutSort

\* A sort with a field index above the header count, on rows of which one
\* lacks the target column, that has reordered the rows.
C18_Witness ==
    /\ SortDone
    /\ call.key.field_1based > call.headers_len
    /\ call.headers_len = 2
    /\ \E i \in 1..Len(call.rows) : Len(call.rows[i]) < 2
    /\ \E i \in 1..Len(call.rows) : Len(call.rows[i]) = 2
    /\ ret.value # call.rows

====
